---- MODULE Spec2Model ----
(***************************************************************************)
(* Model of the Arc Viewer components of the documentation site:           *)
(*   - ArcWatcher     (public/components/arc-watcher.js)                    *)
(*   - ArcTreeViewer  (public/components/arc-tree-viewer.js)                *)
(* Strings that the code builds or takes apart are sequences of one-       *)
(* character strings; timers, sockets and fetches are the host event       *)
(* loop's pending work, one action per callback the loop can run.          *)
(***************************************************************************)
EXTENDS Integers, Sequences, FiniteSets, TLC

(***************************************************************************)
(* Bounds                                                                  *)
(***************************************************************************)
\* number of WebSocket constructions (start() and reconnects) explored
MaxAttempts == 2
\* number of listeners registered at once, over all events
MaxListeners == 2
\* number of successful polls recorded in the history of SpecPolling
MaxPolls == 5
\* length of each list of a Manifest Model
MaxList == 2
MaxCopies == 2
MaxPath == 3
\* toasts shown in one run
MaxToasts == 2
\* requests remembered with their responses
MaxRequests == 2

(***************************************************************************)
(* Values                                                                  *)
(***************************************************************************)
\* JavaScript null / undefined where the other values are sequences
Null == <<>>

\* Snapshots served by /arc-data: ordered fields, as JSON.parse keeps them.
\* SnapB has the fields of SnapA in another order.
SnapA == << <<"routes", "1">>, <<"tables", "1">> >>
SnapB == << <<"tables", "1">>, <<"routes", "1">> >>
SnapC == << <<"routes", "2">>, <<"tables", "1">> >>
Snapshots == {SnapA, SnapB, SnapC}

RECURSIVE StringifyFields(_)
StringifyFields(fields) ==
  IF fields = <<>> THEN <<>>
  ELSE <<"\"", fields[1][1], "\"", ":", fields[1][2]>>
       \o (IF Len(fields) > 1 THEN <<",">> ELSE <<>>)
       \o StringifyFields(Tail(fields))

\* JSON.stringify(data): the fields in their order, between braces
Stringify(data) == <<"{">> \o StringifyFields(data) \o <<"}">>

\* callbacks a host can pass: "ok" returns, "bad" throws
Callbacks == {"ok", "bad"}
Events == {"arc-changed", "connected"}
MessageKinds == {"arc-changed", "other", "malformed"}

VARIABLES
  \* ArcWatcher fields
  onArcChanged, lastData, isWatching, pollTimeout, listeners,
  \* host event loop: pending timers, fetches and sockets of the watcher
  pollTimers, reconnectTimers, fetches, sockets, wsAttempts,
  \* observation: last operation, the calls it made, exception escaping it
  op, trace, escaped,
  \* history of the successful polls (SpecPolling)
  polled, fired,
  \* ArcTreeViewer fields and rendered markup
  arcData, toggleStates, checkboxes, tree, rendered,
  \* the last getNode(nodeId) call and what it returned
  lookup,
  \* the rendered document: collapsed containers, hidden nodes, "no matches"
  \* elements, copy button labels; clipboard writes and label timers under
  \* way; the system clipboard; the last event and what it called
  collapsed, hidden, noMatch, labels, copies, clipboard, domOp,
  \* ArcSearch fields (searchItems is this.items); the manifest last
  \* indexed, the sequence the last search returned, the last call
  searchItems, fuse, lastResults, returned, indexed, searchOp,
  \* the arguments of getLinkPath or getLink and the return value; the
  \* ArcFileLinker's cache
  linkIn, linkOut, cache,
  \* ArcCopy: the page (secure context or not), the copier's toastDuration,
  \* the toasts it made, the event loop's timers, temporary textareas in the
  \* document, clipboard writes under way, a factory-made button, last call
  secure, toastDuration, toasts, timers, textareas, writes, button, copyOp,
  \* the ATM handler's last two responses
  atmLog,
  \* the docs handler: its warm cache, the documents on disk, last response
  pageCache, files, docsOp

watcherVars == <<onArcChanged, lastData, isWatching, pollTimeout, listeners,
                 pollTimers, reconnectTimers, fetches, sockets, wsAttempts,
                 op, trace, escaped, polled, fired>>
treeVars == <<arcData, toggleStates, checkboxes, tree, rendered>>
nodeVars == <<lookup>>
domVars == <<collapsed, hidden, noMatch, labels, copies, clipboard, domOp>>
searchVars == <<searchItems, fuse, lastResults, returned, indexed, searchOp>>
linkVars == <<linkIn, linkOut, cache>>
copyVars == <<secure, toastDuration, toasts, timers, textareas, writes, button,
              copyOp>>
httpVars == <<atmLog, pageCache, files, docsOp>>
vars == <<onArcChanged, lastData, isWatching, pollTimeout, listeners,
          pollTimers, reconnectTimers, fetches, sockets, wsAttempts,
          op, trace, escaped, polled, fired,
          arcData, toggleStates, checkboxes, tree, rendered,
          lookup,
          collapsed, hidden, noMatch, labels, copies, clipboard, domOp,
          searchItems, fuse, lastResults, returned, indexed, searchOp,
          linkIn, linkOut, cache,
          secure, toastDuration, toasts, timers, textareas, writes, button,
          copyOp,
          atmLog, pageCache, files, docsOp>>

Op(name, kind, data) == [name |-> name, kind |-> kind, data |-> data]

\* number of poll timers the event loop still holds
PendingPolls == pollTimers + (IF pollTimeout = "armed" THEN 1 ELSE 0)
\* number of poll callbacks awaiting fetch() or response.json()
InFlight == fetches.fetch + fetches.json

(***************************************************************************)
(* ArcWatcher: emitter                                                     *)
(***************************************************************************)
Call(kind, cb, arg) ==
  [kind |-> kind, cb |-> cb, arg |-> arg, threw |-> (cb = "bad")]

\* a forEach without the try/catch: the first throwing callback ends it
RECURSIVE EmitFromUnguarded(_, _)
EmitFromUnguarded(cbs, arg) ==
  IF cbs = <<>> THEN [calls |-> <<>>, escaped |-> FALSE]
  ELSE IF Head(cbs) = "bad"
       THEN [calls |-> <<Call("listener", Head(cbs), arg)>>, escaped |-> TRUE]
       ELSE LET rest == EmitFromUnguarded(Tail(cbs), arg)
            IN  [calls |-> <<Call("listener", Head(cbs), arg)>> \o rest.calls,
                 escaped |-> rest.escaped]

\* emit(): forEach over the event's callbacks, each inside try/catch
RECURSIVE EmitFrom(_, _)
EmitFrom(cbs, arg) ==
  IF cbs = <<>> THEN [calls |-> <<>>, escaped |-> FALSE]
  ELSE LET rest == EmitFrom(Tail(cbs), arg)
       IN  [calls |-> <<Call("listener", Head(cbs), arg)>> \o rest.calls,
            escaped |-> rest.escaped]

Emit(event, arg) == EmitFrom(listeners[event], arg)

\* handleArcChanged(newData): emit, then onArcChanged inside try/catch
HandleArcChangedCalls(newData) ==
  LET e == Emit("arc-changed", [wrapped |-> TRUE, data |-> newData])
  IN  IF e.escaped THEN e
      ELSE [calls |-> e.calls \o
                      <<Call("onArcChanged", onArcChanged,
                             [wrapped |-> FALSE, data |-> newData])>>,
            escaped |-> FALSE]

HandleArcChanged(newData) ==
  /\ trace' = HandleArcChangedCalls(newData).calls
  /\ escaped' = HandleArcChangedCalls(newData).escaped

NoCalls == trace' = <<>> /\ escaped' = FALSE

\* on(event, callback)
On(event, cb) ==
  /\ Len(listeners["arc-changed"]) + Len(listeners["connected"]) < MaxListeners
  /\ listeners' = [listeners EXCEPT ![event] = Append(@, cb)]
  /\ op' = Op("on", event, Null)
  /\ NoCalls
  /\ UNCHANGED <<onArcChanged, lastData, isWatching, pollTimeout, pollTimers,
                 reconnectTimers, fetches, sockets, wsAttempts, polled, fired>>
  /\ UNCHANGED <<treeVars, nodeVars, domVars, searchVars, linkVars, copyVars,
                 httpVars>>

\* callbacks.indexOf(callback): 0 where JavaScript gives -1
IndexOf(cbs, cb) ==
  IF \E i \in 1..Len(cbs) : cbs[i] = cb
  THEN CHOOSE i \in 1..Len(cbs) :
         cbs[i] = cb /\ \A j \in 1..(i - 1) : cbs[j] # cb
  ELSE 0

\* callbacks.splice(idx, 1)
Splice1(cbs, idx) ==
  [i \in 1..(Len(cbs) - 1) |-> IF i < idx THEN cbs[i] ELSE cbs[i + 1]]

\* off(event, callback)
Off(event, cb) ==
  /\ LET idx == IndexOf(listeners[event], cb)
     IN  listeners' = IF idx # 0
                      THEN [listeners EXCEPT ![event] = Splice1(@, idx)]
                      ELSE listeners
  /\ op' = Op("off", event, Null)
  /\ NoCalls
  /\ UNCHANGED <<onArcChanged, lastData, isWatching, pollTimeout, pollTimers,
                 reconnectTimers, fetches, sockets, wsAttempts, polled, fired>>
  /\ UNCHANGED <<treeVars, nodeVars, domVars, searchVars, linkVars, copyVars,
                 httpVars>>

(***************************************************************************)
(* ArcWatcher: start, socket, polling, stop                                *)
(***************************************************************************)
\* startPolling(), called at the end of a handler: reads isWatching as the
\* handler left it.  The new timer's id replaces this.pollTimeout; a timer
\* whose id was there and is still pending stays pending.
StartPolling ==
  IF isWatching'
  THEN /\ pollTimeout' = "armed"
       /\ pollTimers' = pollTimers + (IF pollTimeout = "armed" THEN 1 ELSE 0)
  ELSE UNCHANGED <<pollTimeout, pollTimers>>

\* tryWebSocketConnection(): the constructor throws, or a socket is connecting
TryWebSocketConnection(throws) ==
  /\ wsAttempts < MaxAttempts
  /\ wsAttempts' = wsAttempts + 1
  /\ IF throws
     THEN sockets' = sockets /\ StartPolling
     ELSE /\ sockets' = [sockets EXCEPT !.connecting = @ + 1]
          /\ UNCHANGED <<pollTimeout, pollTimers>>

\* a start() without the isWatching test
StartUnguarded(throws) ==
  /\ op' = Op("start", IF isWatching THEN "watching" ELSE "idle", Null)
  /\ NoCalls
  /\ isWatching' = TRUE
  /\ TryWebSocketConnection(throws)
  /\ UNCHANGED <<onArcChanged, lastData, listeners, reconnectTimers, fetches,
                 polled, fired>>
  /\ UNCHANGED <<treeVars, nodeVars, domVars, searchVars, linkVars, copyVars,
                 httpVars>>

\* start()
Start(throws) ==
  /\ op' = Op("start", IF isWatching THEN "watching" ELSE "idle", Null)
  /\ NoCalls
  /\ IF isWatching
     THEN UNCHANGED <<isWatching, wsAttempts, sockets, pollTimeout, pollTimers>>
     ELSE /\ isWatching' = TRUE
          /\ TryWebSocketConnection(throws)
  /\ UNCHANGED <<onArcChanged, lastData, listeners, reconnectTimers, fetches,
                 polled, fired>>
  /\ UNCHANGED <<treeVars, nodeVars, domVars, searchVars, linkVars, copyVars,
                 httpVars>>

\* stop(): clearTimeout(this.pollTimeout) takes the timer away if it is still
\* pending; timers whose id is no longer in this.pollTimeout are not touched
Stop ==
  /\ op' = Op("stop", IF isWatching THEN "watching" ELSE "idle", Null)
  /\ NoCalls
  /\ IF ~isWatching
     THEN UNCHANGED <<isWatching, pollTimeout>>
     ELSE /\ isWatching' = FALSE
          /\ pollTimeout' = "null"
  /\ UNCHANGED <<onArcChanged, lastData, listeners, pollTimers,
                 reconnectTimers, fetches, sockets, wsAttempts, polled, fired>>
  /\ UNCHANGED <<treeVars, nodeVars, domVars, searchVars, linkVars, copyVars,
                 httpVars>>

\* socket 'open' event
WsOpen ==
  /\ sockets.connecting > 0
  /\ sockets' = [sockets EXCEPT !.connecting = @ - 1, !.open = @ + 1]
  /\ op' = Op("open", "", Null)
  /\ trace' = Emit("connected", [wrapped |-> FALSE, data |-> Null]).calls
  /\ escaped' = Emit("connected", [wrapped |-> FALSE, data |-> Null]).escaped
  /\ UNCHANGED <<onArcChanged, lastData, isWatching, pollTimeout, listeners,
                 pollTimers, reconnectTimers, fetches, wsAttempts,
                 polled, fired>>
  /\ UNCHANGED <<treeVars, nodeVars, domVars, searchVars, linkVars, copyVars,
                 httpVars>>

\* a message handler without the type test
WsMessageAnyType(kind, arcDataOfMsg) ==
  /\ sockets.open > 0
  /\ op' = Op("message", kind, arcDataOfMsg)
  /\ IF kind # "malformed"
     THEN HandleArcChanged(arcDataOfMsg)
     ELSE NoCalls
  /\ UNCHANGED <<onArcChanged, lastData, isWatching, pollTimeout, listeners,
                 pollTimers, reconnectTimers, fetches, sockets, wsAttempts,
                 polled, fired>>
  /\ UNCHANGED <<treeVars, nodeVars, domVars, searchVars, linkVars, copyVars,
                 httpVars>>

\* socket 'message' event on an open socket: JSON.parse, then the type test
WsMessage(kind, arcDataOfMsg) ==
  /\ sockets.open > 0
  /\ op' = Op("message", kind, arcDataOfMsg)
  /\ IF kind = "arc-changed"
     THEN HandleArcChanged(arcDataOfMsg)
     ELSE NoCalls
  /\ UNCHANGED <<onArcChanged, lastData, isWatching, pollTimeout, listeners,
                 pollTimers, reconnectTimers, fetches, sockets, wsAttempts,
                 polled, fired>>
  /\ UNCHANGED <<treeVars, nodeVars, domVars, searchVars, linkVars, copyVars,
                 httpVars>>

\* socket 'error' event: the browser fires 'close' on the same socket next
WsError(from) ==
  /\ sockets[from] > 0
  /\ sockets' = [sockets EXCEPT ![from] = @ - 1, !.failed = @ + 1]
  /\ op' = Op("error", from, Null)
  /\ NoCalls
  /\ isWatching' = isWatching
  /\ StartPolling
  /\ UNCHANGED <<onArcChanged, lastData, listeners, reconnectTimers, fetches,
                 wsAttempts, polled, fired>>
  /\ UNCHANGED <<treeVars, nodeVars, domVars, searchVars, linkVars, copyVars,
                 httpVars>>

\* socket 'close' event, after an error or on an open socket
WsClose(from) ==
  /\ sockets[from] > 0
  /\ sockets' = [sockets EXCEPT ![from] = @ - 1]
  /\ op' = Op("close", from, Null)
  /\ NoCalls
  /\ reconnectTimers' = IF isWatching THEN reconnectTimers + 1
                        ELSE reconnectTimers
  /\ UNCHANGED <<onArcChanged, lastData, isWatching, pollTimeout, listeners,
                 pollTimers, fetches, wsAttempts, polled, fired>>
  /\ UNCHANGED <<treeVars, nodeVars, domVars, searchVars, linkVars, copyVars,
                 httpVars>>

\* the 5000 ms reconnect timer fires
ReconnectTimerFires(throws) ==
  /\ reconnectTimers > 0
  /\ reconnectTimers' = reconnectTimers - 1
  /\ op' = Op("reconnect", "", Null)
  /\ NoCalls
  /\ isWatching' = isWatching
  /\ TryWebSocketConnection(throws)
  /\ UNCHANGED <<onArcChanged, lastData, listeners, fetches, polled, fired>>
  /\ UNCHANGED <<treeVars, nodeVars, domVars, searchVars, linkVars, copyVars,
                 httpVars>>

\* a poll timer fires: the callback runs up to `await fetch(...)`
PollTimerFires(which) ==
  /\ \/ /\ which = "current"
        /\ pollTimeout = "armed"
        /\ pollTimeout' = "fired"
        /\ pollTimers' = pollTimers
     \/ /\ which = "other"
        /\ pollTimers > 0
        /\ pollTimers' = pollTimers - 1
        /\ pollTimeout' = pollTimeout
  /\ fetches' = [fetches EXCEPT !.fetch = @ + 1]
  /\ op' = Op("pollTimer", which, Null)
  /\ NoCalls
  /\ UNCHANGED <<onArcChanged, lastData, isWatching, listeners,
                 reconnectTimers, sockets, wsAttempts, polled, fired>>
  /\ UNCHANGED <<treeVars, nodeVars, domVars, searchVars, linkVars, copyVars,
                 httpVars>>

\* fetch() settles with a 2xx response: the callback runs up to
\* `await response.json()`
FetchOk ==
  /\ fetches.fetch > 0
  /\ fetches' = [fetches EXCEPT !.fetch = @ - 1, !.json = @ + 1]
  /\ op' = Op("fetchOk", "", Null)
  /\ NoCalls
  /\ UNCHANGED <<onArcChanged, lastData, isWatching, pollTimeout, listeners,
                 pollTimers, reconnectTimers, sockets, wsAttempts,
                 polled, fired>>
  /\ UNCHANGED <<treeVars, nodeVars, domVars, searchVars, linkVars, copyVars,
                 httpVars>>

\* a poll whose catch block is not followed by startPolling()
PollFailsAndStops(stage, why) ==
  /\ fetches[stage] > 0
  /\ fetches' = [fetches EXCEPT ![stage] = @ - 1]
  /\ op' = Op("pollFailed", why, Null)
  /\ NoCalls
  /\ UNCHANGED <<onArcChanged, lastData, isWatching, pollTimeout, listeners,
                 pollTimers, reconnectTimers, sockets, wsAttempts,
                 polled, fired>>
  /\ UNCHANGED <<treeVars, nodeVars, domVars, searchVars, linkVars, copyVars,
                 httpVars>>

\* the poll ends in the catch block (fetch rejected, non-2xx response, or
\* response.json() rejected), then finally
PollFails(stage, why) ==
  /\ fetches[stage] > 0
  /\ fetches' = [fetches EXCEPT ![stage] = @ - 1]
  /\ op' = Op("pollFailed", why, Null)
  /\ NoCalls
  /\ lastData' = lastData
  /\ isWatching' = isWatching
  /\ StartPolling
  /\ UNCHANGED <<onArcChanged, listeners, reconnectTimers, sockets,
                 wsAttempts, polled, fired>>
  /\ UNCHANGED <<treeVars, nodeVars, domVars, searchVars, linkVars, copyVars,
                 httpVars>>

\* a comparison that never finds the poll unchanged
PollChangedAlways(hash) == TRUE
\* the comparison with its sense inverted
PollChangedInverted(hash) == lastData = hash

\* whether the poll that read hash reports a change
PollChanged(hash) == lastData # hash

\* response.json() settles with data: the hash comparison, then finally
PollSucceeds(data, record) ==
  /\ fetches.json > 0
  /\ fetches' = [fetches EXCEPT !.json = @ - 1]
  /\ op' = Op("pollOk", "", data)
  /\ LET hash == Stringify(data)
     IN  /\ IF PollChanged(hash)
            THEN lastData' = hash /\ HandleArcChanged(data)
            ELSE lastData' = lastData /\ NoCalls
         /\ IF record
            THEN /\ Len(polled) < MaxPolls
                 /\ polled' = Append(polled, data)
                 /\ fired' = Append(fired, trace' # <<>>)
            ELSE UNCHANGED <<polled, fired>>
  /\ isWatching' = isWatching
  /\ StartPolling
  /\ UNCHANGED <<onArcChanged, listeners, reconnectTimers, sockets,
                 wsAttempts>>
  /\ UNCHANGED <<treeVars, nodeVars, domVars, searchVars, linkVars, copyVars,
                 httpVars>>

\* the state after `new ArcWatcher(options)`
WatcherInit ==
  /\ onArcChanged \in Callbacks
  /\ lastData = Null
  /\ isWatching = FALSE
  /\ pollTimeout = "null"
  /\ listeners = [e \in Events |-> <<>>]
  /\ pollTimers = 0
  /\ reconnectTimers = 0
  /\ fetches = [fetch |-> 0, json |-> 0]
  /\ sockets = [connecting |-> 0, open |-> 0, failed |-> 0]
  /\ wsAttempts = 0
  /\ op = Op("new", "", Null)
  /\ trace = <<>>
  /\ escaped = FALSE
  /\ polled = <<>>
  /\ fired = <<>>

(***************************************************************************)
(* ArcTreeViewer                                                           *)
(***************************************************************************)
Categories == {"routes", "lambdas", "tables"}

RouteEntries ==
  { [method |-> <<"G", "E", "T">>, path |-> <<"/", "a">>,
     functionName |-> "get-a"],
    [method |-> <<"P", "U", "T">>, path |-> <<"/">>,
     functionName |-> "put-index"] }
LambdaEntries == { [name |-> <<"n", "1">>], [name |-> <<"n", "2">>] }
TableEntries == { [name |-> <<"u">>, attributes |-> <<"id">>] }

SeqsUpTo(S, n) == UNION { [1..k -> S] : k \in 0..n }

\* a field of arcData: absent (undefined), or a list
Missing == [has |-> FALSE, items |-> <<>>]
Fields(S) == {Missing} \cup { [has |-> TRUE, items |-> l] : l \in SeqsUpTo(S, MaxList) }

Manifests ==
  [routes : Fields(RouteEntries), lambdas : Fields(LambdaEntries),
   tables : Fields(TableEntries)]

\* the {} that the constructor takes when options.arcData is absent
EmptyManifest == [routes |-> Missing, lambdas |-> Missing, tables |-> Missing]

Digit(d) == <<"0", "1", "2", "3", "4", "5", "6", "7", "8", "9">>[d + 1]

\* String(n) of a non-negative integer, as a template literal formats it
RECURSIVE NumberToString(_)
NumberToString(n) ==
  IF n < 10 THEN <<Digit(n)>>
  ELSE NumberToString(n \div 10) \o <<Digit(n % 10)>>

\* `${prefix}-${idx}` for the element at position i of a list (idx = i - 1)
ChildId(prefix, i) == prefix \o <<"-">> \o NumberToString(i - 1)

\* a test of the list's presence only
NonEmptyTruthy(field) == field.has

\* this.arcData.<field>?.length > 0
NonEmpty(field) == field.has /\ Len(field.items) > 0

RouteChildren(items) ==
  [i \in 1..Len(items) |->
     [id |-> ChildId(<<"r", "o", "u", "t", "e">>, i),
      name |-> items[i].method \o <<" ">> \o items[i].path,
      path |-> items[i].path,
      method |-> items[i].method,
      functionName |-> items[i].functionName,
      type |-> "route"]]

LambdaChildren(items) ==
  [i \in 1..Len(items) |->
     [id |-> ChildId(<<"l", "a", "m", "b", "d", "a">>, i),
      name |-> items[i].name,
      type |-> "lambda"]]

TableChildren(items) ==
  [i \in 1..Len(items) |->
     [id |-> ChildId(<<"t", "a", "b", "l", "e">>, i),
      name |-> items[i].name,
      type |-> "table"]]

Group(id, name, children) == [id |-> id, name |-> name, children |-> children]

\* buildTree()
BuildTree(data, toggles) ==
  (IF toggles.routes /\ NonEmpty(data.routes)
   THEN <<Group("routes-group", "Routes", RouteChildren(data.routes.items))>>
   ELSE <<>>)
  \o
  (IF toggles.lambdas /\ NonEmpty(data.lambdas)
   THEN <<Group("lambdas-group", "Lambdas", LambdaChildren(data.lambdas.items))>>
   ELSE <<>>)
  \o
  (IF toggles.tables /\ NonEmpty(data.tables)
   THEN <<Group("tables-group", "Tables", TableChildren(data.tables.items))>>
   ELSE <<>>)

\* textContent of a copy button: as rendered, after a copy, after a failure
CopyIcon == "clipboard"
CopiedText == "Copied!"
FailedText == "Failed"

DomOp(kind, cat, idx) ==
  [kind |-> kind, cat |-> cat, idx |-> idx, target |-> "", calls |-> <<>>,
   ok |-> FALSE, threw |-> FALSE, label |-> "", alone |-> FALSE,
   query |-> <<>>, before |-> 0, was |-> {}]

\* the number of route leaves, each rendered with one copy button
CopyButtons(groups) ==
  LET shown == { i \in 1..Len(groups) : groups[i].id = "routes-group" }
  IN  IF shown = {} THEN 0 ELSE Len(groups[CHOOSE i \in shown : TRUE].children)

\* a copy whose button is no longer in the document: what is kept of it is
\* the value being written, how far it got, and whether its timer callback
\* has a binding for originalText
Detached(copy) ==
  [btn |-> 0, value |-> copy.value, phase |-> copy.phase,
   original |-> IF copy.original = "unbound" \/ copy.phase = "writing"
                THEN "unbound" ELSE "detached",
   attached |-> FALSE, label |-> "", alone |-> FALSE]

\* container.innerHTML = html: every element is new, so nothing is
\* collapsed or hidden, and the buttons of copies under way leave the document
ReplaceDocument(groups, by) ==
  /\ collapsed' = {}
  /\ hidden' = {}
  /\ noMatch' = <<>>
  /\ labels' = [k \in 1..CopyButtons(groups) |-> CopyIcon]
  /\ copies' = [i \in 1..Len(copies) |-> Detached(copies[i])]
  /\ clipboard' = clipboard
  /\ domOp' = [DomOp("render", "", 0) EXCEPT !.target = by]

\* render(): the markup of buildTree(), with the three checkboxes `checked`
RenderStale(by) ==
  /\ tree' = BuildTree(arcData, toggleStates)
  /\ checkboxes' = [c \in Categories |-> TRUE]
  /\ rendered' = TRUE
  /\ ReplaceDocument(tree', by)

Render(by) ==
  /\ tree' = BuildTree(arcData', toggleStates')
  /\ checkboxes' = [c \in Categories |-> TRUE]
  /\ rendered' = TRUE
  /\ ReplaceDocument(tree', by)

\* init(arcData) of a viewer whose init() went through the constructor's
\* assignments again
TreeViewerInitResetting(given, newData) ==
  /\ arcData' = IF given THEN newData ELSE arcData
  /\ toggleStates' = [c \in Categories |-> TRUE]
  /\ Render(IF given THEN "init(arcData)" ELSE "init()")
  /\ UNCHANGED <<watcherVars, nodeVars, searchVars, linkVars, copyVars,
                 httpVars>>

\* init(arcData): a falsy argument keeps the model the viewer has
TreeViewerInit(given, newData) ==
  /\ arcData' = IF given THEN newData ELSE arcData
  /\ toggleStates' = toggleStates
  /\ Render(IF given THEN "init(arcData)" ELSE "init()")
  /\ UNCHANGED <<watcherVars, nodeVars, searchVars, linkVars, copyVars,
                 httpVars>>

\* a click on a category checkbox: the browser flips it, then 'change' runs
ToggleChange(cat) ==
  /\ rendered
  /\ toggleStates' = [toggleStates EXCEPT ![cat] = ~checkboxes[cat]]
  /\ arcData' = arcData
  /\ Render("change")
  /\ UNCHANGED <<watcherVars, nodeVars, searchVars, linkVars, copyVars,
                 httpVars>>

\* no getNode() call made yet
NoLookup == lookup = [id |-> <<>>, called |-> FALSE, result |-> [isNull |-> TRUE]]

\* the container before the first render()
NoDocument ==
  /\ collapsed = {}
  /\ hidden = {}
  /\ noMatch = <<>>
  /\ labels = <<>>
  /\ copies = <<>>
  /\ clipboard = <<>>
  /\ domOp = DomOp("none", "", 0)

\* the state after `new ArcTreeViewer(options)`
TreeViewerNew ==
  /\ arcData \in Manifests
  /\ toggleStates = [c \in Categories |-> TRUE]
  /\ checkboxes = [c \in Categories |-> FALSE]
  /\ tree = <<>>
  /\ rendered = FALSE
  /\ NoDocument

\* a page without a tree viewer of its own data
TreeViewerIdle ==
  /\ arcData = EmptyManifest
  /\ toggleStates = [c \in Categories |-> TRUE]
  /\ checkboxes = [c \in Categories |-> FALSE]
  /\ tree = <<>>
  /\ rendered = FALSE
  /\ NoDocument

(***************************************************************************)
(* ArcTreeViewer: getNode                                                  *)
(***************************************************************************)
\* String.prototype.startsWith
StartsWith(str, prefix) ==
  /\ Len(str) >= Len(prefix)
  /\ SubSeq(str, 1, Len(prefix)) = prefix

\* String.prototype.split with a one-character separator
RECURSIVE SplitFrom(_, _, _)
SplitFrom(str, sep, part) ==
  IF str = <<>> THEN <<part>>
  ELSE IF Head(str) = sep
       THEN <<part>> \o SplitFrom(Tail(str), sep, <<>>)
       ELSE SplitFrom(Tail(str), sep, Append(part, Head(str)))

Split(str, sep) == SplitFrom(str, sep, <<>>)

IsSpace(c) == c \in {" ", "\t", "\n"}
DecDigits == <<"0", "1", "2", "3", "4", "5", "6", "7", "8", "9">>
HexDigits == DecDigits \o <<"a", "b", "c", "d", "e", "f">>

\* the value of character c as a digit among digits, -1 if it is none
DigitValue(digits, c) ==
  IF \E i \in 1..Len(digits) : digits[i] = c
  THEN (CHOOSE i \in 1..Len(digits) : digits[i] = c) - 1
  ELSE -1

RECURSIVE SkipSpaces(_)
SkipSpaces(str) ==
  IF str # <<>> /\ IsSpace(Head(str)) THEN SkipSpaces(Tail(str)) ELSE str

\* the number read from the leading digits of str, given the digits read so
\* far: NaN when there is none
RECURSIVE ReadDigits(_, _, _, _)
ReadDigits(str, digits, any, acc) ==
  IF str # <<>> /\ DigitValue(digits, Head(str)) >= 0
  THEN ReadDigits(Tail(str), digits, TRUE,
                  acc * Len(digits) + DigitValue(digits, Head(str)))
  ELSE [nan |-> ~any, value |-> acc]

\* parseInt(str) without a radix: leading white space, a sign, a 0x prefix,
\* then as many digits as there are
ParseInt(str) ==
  LET s1 == SkipSpaces(str)
      neg == s1 # <<>> /\ Head(s1) = "-"
      s2 == IF s1 # <<>> /\ Head(s1) \in {"-", "+"} THEN Tail(s1) ELSE s1
      hex == Len(s2) >= 2 /\ s2[1] = "0" /\ s2[2] \in {"x", "X"}
      n == IF hex THEN ReadDigits(Tail(Tail(s2)), HexDigits, FALSE, 0)
           ELSE ReadDigits(s2, DecDigits, FALSE, 0)
  IN  [nan |-> n.nan, value |-> IF neg THEN 0 - n.value ELSE n.value]

\* JavaScript undefined where the other values are records
Undefined == [undefined |-> TRUE]

\* list[idx] with the 1-based position idx + 1 taken
ElementAtOneBased(list, idx) ==
  IF ~idx.nan /\ idx.value >= 1 /\ idx.value <= Len(list)
  THEN list[idx.value]
  ELSE Undefined

\* list[idx]: undefined for NaN, a negative or an out-of-range index
ElementAt(list, idx) ==
  IF ~idx.nan /\ idx.value >= 0 /\ idx.value < Len(list)
  THEN list[idx.value + 1]
  ELSE Undefined

\* this.arcData.<field> || []
ListOrEmpty(field) == IF field.has THEN field.items ELSE <<>>

\* nodeId.split('-')[1]
SecondPart(nodeId) ==
  LET parts == Split(nodeId, "-")
  IN  IF Len(parts) >= 2 THEN parts[2] ELSE <<>>

NodeResult(type, data) == [isNull |-> FALSE, type |-> type, data |-> data]
NullResult == [isNull |-> TRUE]

\* getNode(nodeId)
GetNodeResult(data, nodeId) ==
  LET routes == ListOrEmpty(data.routes)
      lambdas == ListOrEmpty(data.lambdas)
      tables == ListOrEmpty(data.tables)
      idx == ParseInt(SecondPart(nodeId))
  IN  IF StartsWith(nodeId, <<"r", "o", "u", "t", "e", "-">>)
      THEN NodeResult("route", ElementAt(routes, idx))
      ELSE IF StartsWith(nodeId, <<"l", "a", "m", "b", "d", "a", "-">>)
      THEN NodeResult("lambda", ElementAt(lambdas, idx))
      ELSE IF StartsWith(nodeId, <<"t", "a", "b", "l", "e", "-">>)
      THEN NodeResult("table", ElementAt(tables, idx))
      ELSE NullResult

\* ids a host passes to getNode besides those of the rendered tree
OtherNodeIds ==
  { <<"r", "o", "u", "t", "e", "-">>,
    <<"r", "o", "u", "t", "e", "-", "x">>,
    <<"r", "o", "u", "t", "e", "-", "-", "1">>,
    <<"r", "o", "u", "t", "e", "-", "1", "x">>,
    <<"r", "o", "u", "t", "e", "-", "0", "-", "1">>,
    <<"r", "o", "u", "t", "e", "-", " ", "1">>,
    <<"r", "o", "u", "t", "e", "-", "0", "x", "1">>,
    <<"r", "o", "u", "t", "e", "-", "0", "0">>,
    <<"r", "o", "u", "t", "e", "-", "7">>,
    <<"r", "o", "u", "t", "e", "s", "-", "g", "r", "o", "u", "p">>,
    <<"l", "a", "m", "b", "d", "a", "-", "1">>,
    <<"l", "a", "m", "b", "d", "a", "-", "1", "0">>,
    <<"l", "a", "m", "b", "d", "a", "-", "1", "2">>,
    <<"t", "a", "b", "l", "e", "-", "0">>,
    <<"t", "a", "b", "l", "e", "s", "-", "g", "r", "o", "u", "p">>,
    <<"f", "o", "o", "-", "0">>,
    <<"r", "o", "u", "t", "e">>,
    <<>> }

\* the ids of the leaves of a built tree
ChildIds(groups) ==
  UNION { { groups[i].children[k].id : k \in 1..Len(groups[i].children) } :
            i \in 1..Len(groups) }

\* a call of getNode(nodeId) by the host
GetNode(nodeId) ==
  /\ lookup' = [id |-> nodeId, called |-> TRUE,
                result |-> GetNodeResult(arcData, nodeId)]
  /\ UNCHANGED <<watcherVars, treeVars, domVars, searchVars, linkVars,
                 copyVars, httpVars>>

\* a manifest with more than ten lambdas
LongManifest ==
  [routes |-> Missing,
   lambdas |-> [has |-> TRUE,
                items |-> [i \in 1..11 |->
                             IF i % 2 = 1 THEN [name |-> <<"n", "1">>]
                             ELSE [name |-> <<"n", "2">>]]],
   tables |-> [has |-> TRUE, items |-> <<>>]]

(***************************************************************************)
(* ArcTreeViewer: events of the rendered document                          *)
(***************************************************************************)
\* the characters of the ids and names that buildTree() gives the groups
Chars(str) ==
  CASE str = "routes-group" ->
         <<"r", "o", "u", "t", "e", "s", "-", "g", "r", "o", "u", "p">>
    [] str = "lambdas-group" ->
         <<"l", "a", "m", "b", "d", "a", "s", "-", "g", "r", "o", "u", "p">>
    [] str = "tables-group" ->
         <<"t", "a", "b", "l", "e", "s", "-", "g", "r", "o", "u", "p">>
    [] str = "Routes" -> <<"R", "o", "u", "t", "e", "s">>
    [] str = "Lambdas" -> <<"L", "a", "m", "b", "d", "a", "s">>
    [] str = "Tables" -> <<"T", "a", "b", "l", "e", "s">>

GroupIds ==
  [routes |-> "routes-group", lambdas |-> "lambdas-group",
   tables |-> "tables-group"]

\* the categories whose group is in the rendered tree
ShownCategories(groups) ==
  { c \in Categories : \E i \in 1..Len(groups) : groups[i].id = GroupIds[c] }

GroupNode(groups, cat) ==
  groups[CHOOSE i \in 1..Len(groups) : groups[i].id = GroupIds[cat]]

\* the li.tree-node elements: idx 0 is the group's, idx k its k-th child's
TreeNodes(groups) ==
  UNION { { [cat |-> c, idx |-> k] :
              k \in 0..Len(GroupNode(groups, c).children) } :
          c \in ShownCategories(groups) }

\* data-node-id of an element
NodeIdOf(groups, ref) ==
  IF ref.idx = 0 THEN Chars(GroupNode(groups, ref.cat).id)
  ELSE GroupNode(groups, ref.cat).children[ref.idx].id

\* textContent of the element's span.tree-label
LabelText(groups, ref) ==
  IF ref.idx = 0 THEN Chars(GroupNode(groups, ref.cat).name)
  ELSE GroupNode(groups, ref.cat).children[ref.idx].name

\* node.children && node.children.length > 0
HasChildren(groups, ref) ==
  ref.idx = 0 /\ Len(GroupNode(groups, ref.cat).children) > 0

\* !isGroup && node.type === 'route'
HasCopyBtn(groups, ref) ==
  ref.idx > 0 /\ GroupNode(groups, ref.cat).children[ref.idx].type = "route"

\* data-value of the copy button
CopyValue(groups, ref) ==
  LET node == GroupNode(groups, ref.cat).children[ref.idx]
  IN  node.method \o <<" ">> \o node.path

\* the elements of one li that a click can land on; "tree-node" is the li
\* outside its content row
Targets(groups, ref) ==
  {"tree-node", "tree-node-content", "tree-icon", "tree-label"}
  \cup (IF HasChildren(groups, ref) THEN {"tree-toggle"}
        ELSE {"tree-toggle-empty"})
  \cup (IF HasCopyBtn(groups, ref) THEN {"copy-btn"} ELSE {})

\* only the copy button's listener stops the event
StopsPropagationCopyOnly(target) == target = "copy-btn"

\* the listeners that call e.stopPropagation()
StopsPropagation(target) == target \in {"tree-toggle", "copy-btn"}

\* one click: the target's own listener, then, unless the event was stopped,
\* the listener of the enclosing div.tree-node-content
Click(ref, target) ==
  /\ rendered
  /\ ref \in TreeNodes(tree)
  /\ target \in Targets(tree, ref)
  /\ target = "copy-btn" => Len(copies) < MaxCopies
  /\ LET atContent == target # "tree-node" /\ ~StopsPropagation(target)
         calls == IF atContent /\ target # "copy-btn"
                  THEN <<[nodeId |-> NodeIdOf(tree, ref), manifest |-> arcData]>>
                  ELSE <<>>
         sameBtn(c) == c.attached /\ c.btn = ref.idx
         alone == \A i \in 1..Len(copies) : ~sameBtn(copies[i])
     IN  /\ collapsed' = IF target = "tree-toggle"
                         THEN IF ref.cat \in collapsed
                              THEN collapsed \ {ref.cat}
                              ELSE collapsed \cup {ref.cat}
                         ELSE collapsed
         /\ copies' = IF target = "copy-btn"
                      THEN Append([i \in 1..Len(copies) |->
                                     IF sameBtn(copies[i])
                                     THEN [copies[i] EXCEPT !.alone = FALSE]
                                     ELSE copies[i]],
                                  [btn |-> ref.idx,
                                   value |-> CopyValue(tree, ref),
                                   phase |-> "writing",
                                   original |-> "unbound",
                                   attached |-> TRUE,
                                   label |-> labels[ref.idx],
                                   alone |-> alone])
                      ELSE copies
         /\ domOp' = [DomOp("click", ref.cat, ref.idx) EXCEPT
                        !.target = target, !.calls = calls]
  /\ UNCHANGED <<hidden, noMatch, labels, clipboard>>
  /\ UNCHANGED <<watcherVars, treeVars, nodeVars, searchVars, linkVars,
                 copyVars, httpVars>>

Remove(seq, i) == SubSeq(seq, 1, i - 1) \o SubSeq(seq, i + 1, Len(seq))

\* navigator.clipboard.writeText(value) settles and the handler resumes
\* after its await. The 2000 ms timer it arms is queued behind the timers
\* armed before it. The text of a button that left the document is not kept.
CopySettles(i, ok) ==
  /\ i \in 1..Len(copies)
  /\ copies[i].phase = "writing"
  /\ LET c == copies[i]
         text == IF c.attached THEN labels[c.btn] ELSE "detached"
     IN  /\ clipboard' = IF ok THEN c.value ELSE clipboard
         /\ labels' = IF c.attached
                      THEN [labels EXCEPT ![c.btn] =
                              IF ok THEN CopiedText ELSE FailedText]
                      ELSE labels
         /\ copies' = Append(Remove(copies, i),
                             [c EXCEPT !.phase = "timer",
                                       !.original = IF ok THEN text
                                                    ELSE "unbound"])
         /\ domOp' = [DomOp("settled", "routes", c.btn) EXCEPT
                        !.ok = ok, !.label = c.label,
                        !.alone = c.alone /\ c.attached]
  /\ UNCHANGED <<collapsed, hidden, noMatch>>
  /\ UNCHANGED <<watcherVars, treeVars, nodeVars, searchVars, linkVars,
                 copyVars, httpVars>>

\* the oldest label timer fires: e.target.textContent = originalText, where
\* the callback armed in the catch block finds no binding for originalText
CopyTimerFires ==
  /\ \E i \in 1..Len(copies) : copies[i].phase = "timer"
  /\ LET i == CHOOSE j \in 1..Len(copies) :
                /\ copies[j].phase = "timer"
                /\ \A k \in 1..(j - 1) : copies[k].phase # "timer"
         c == copies[i]
         bound == c.original # "unbound"
     IN  /\ labels' = IF bound /\ c.attached
                      THEN [labels EXCEPT ![c.btn] = c.original]
                      ELSE labels
         /\ copies' = Remove(copies, i)
         /\ domOp' = [DomOp("timer", "routes", c.btn) EXCEPT
                        !.threw = ~bound, !.label = c.label,
                        !.alone = c.alone /\ c.attached]
  /\ UNCHANGED <<collapsed, hidden, noMatch, clipboard>>
  /\ UNCHANGED <<watcherVars, treeVars, nodeVars, searchVars, linkVars,
                 copyVars, httpVars>>

UpperCase ==
  <<"A", "B", "C", "D", "E", "F", "G", "H", "I", "J", "K", "L", "M",
    "N", "O", "P", "Q", "R", "S", "T", "U", "V", "W", "X", "Y", "Z">>
LowerCase ==
  <<"a", "b", "c", "d", "e", "f", "g", "h", "i", "j", "k", "l", "m",
    "n", "o", "p", "q", "r", "s", "t", "u", "v", "w", "x", "y", "z">>

\* String.prototype.toLowerCase
ToLowerCase(str) ==
  [i \in 1..Len(str) |->
     IF \E k \in 1..26 : UpperCase[k] = str[i]
     THEN LowerCase[CHOOSE k \in 1..26 : UpperCase[k] = str[i]]
     ELSE str[i]]

\* String.prototype.includes
Includes(str, part) ==
  \E i \in 1..(Len(str) + 1) :
    /\ i + Len(part) - 1 <= Len(str)
    /\ SubSeq(str, i, i + Len(part) - 1) = part

\* what the search box can hold
Queries ==
  { <<>>, <<"a">>, <<"G", "E">>, <<"n", "1">>, <<"s">>, <<"z">>,
    <<"q", "q">> }

\* `No matches for "${query}"`
NoMatchText(query) ==
  <<"N", "o", " ", "m", "a", "t", "c", "h", "e", "s", " ", "f", "o", "r",
    " ", "\"">> \o query \o <<"\"">>

\* text.includes(query.toLowerCase()) for the label of one node
Matches(groups, ref, query) ==
  Includes(ToLowerCase(LabelText(groups, ref)), ToLowerCase(query))

\* display is only ever set to 'none'
HiddenAccumulated(groups, query) ==
  hidden \cup { ref \in TreeNodes(groups) : ~Matches(groups, ref, query) }

\* node.style.display = matches || query === '' ? '' : 'none', for every node
HiddenBy(groups, query) ==
  { ref \in TreeNodes(groups) :
      ~(Matches(groups, ref, query) \/ query = <<>>) }

\* the categories whose div.tree-children is an ancestor of a counted node:
\* node.closest('.tree-children') is null for a group's own li
ExpandedWithGroups(counted) == { ref.cat : ref \in counted }
Expanded(counted) == { ref.cat : ref \in { r \in counted : r.idx > 0 } }

\* filterTree(query), as the search box's input listener calls it
FilterTree(query) ==
  /\ rendered
  /\ LET counted == { ref \in TreeNodes(tree) :
                       Matches(tree, ref, query) /\ query # <<>> }
         matchCount == Cardinality(counted)
     IN  /\ hidden' = HiddenBy(tree, query)
         /\ collapsed' = collapsed \ Expanded(counted)
         /\ noMatch' = IF query # <<>> /\ matchCount = 0
                       THEN IF noMatch = <<>>
                            THEN Append(noMatch, NoMatchText(query))
                            ELSE noMatch
                       ELSE IF noMatch # <<>> THEN Tail(noMatch)
                            ELSE noMatch
         /\ domOp' = [DomOp("filter", "", 0) EXCEPT
                        !.query = query, !.before = Cardinality(hidden),
                        !.was = collapsed]
  /\ UNCHANGED <<labels, copies, clipboard>>
  /\ UNCHANGED <<watcherVars, treeVars, nodeVars, searchVars, linkVars,
                 copyVars, httpVars>>

\* a manifest with two routes and a lambda
RoutesManifest ==
  [routes |-> [has |-> TRUE,
               items |-> << [method |-> <<"G", "E", "T">>,
                             path |-> <<"/", "a">>,
                             functionName |-> "get-a"],
                            [method |-> <<"P", "U", "T">>,
                             path |-> <<"/">>,
                             functionName |-> "put-index"] >>],
   lambdas |-> [has |-> TRUE, items |-> << [name |-> <<"n", "1">>] >>],
   tables |-> Missing]

\* the manifests of the document specifications
DomManifests ==
  { RoutesManifest,
    [routes |-> Missing,
     lambdas |-> [has |-> TRUE,
                  items |-> << [name |-> <<"n", "1">>],
                               [name |-> <<"n", "2">>] >>],
     tables |-> [has |-> TRUE,
                 items |-> << [name |-> <<"u">>,
                               attributes |-> <<"id">>] >>]],
    EmptyManifest }

(***************************************************************************)
(* ArcSearch                                                               *)
(***************************************************************************)
\* manifest entries whose every text is kept as characters
SearchRoute(method, path, functionName) ==
  [method |-> method, path |-> path, functionName |-> functionName]

UsersRoute ==
  SearchRoute(<<"G", "E", "T">>,
              <<"/", "a", "p", "i", "/", "u", "s", "e", "r", "s">>,
              <<"l", "i", "s", "t">>)
NotifyRoute ==
  SearchRoute(<<"P", "U", "T">>, <<"/", "n">>, <<"A", "p", "i", "N">>)
Notifier == [name |-> <<"n", "o", "t", "i", "f", "i", "e", "r">>]
ApiLambda == [name |-> <<"A", "P", "I">>]
UsersTable == [name |-> <<"u", "s", "e", "r", "s">>]

Present(list) == [has |-> TRUE, items |-> list]

\* the manifests handed to ArcSearch.init
SearchManifests ==
  { [routes |-> Present(<<UsersRoute, NotifyRoute>>),
     lambdas |-> Present(<<Notifier>>),
     tables |-> Missing],
    [routes |-> Present(<<>>),
     lambdas |-> Present(<<ApiLambda, Notifier>>),
     tables |-> Present(<<UsersTable>>)],
    EmptyManifest }

\* what the search box can hold
SearchQueries ==
  { <<>>, <<" ">>, <<"a", "p", "i">>, <<"U", "s">>, <<"z">> }

RouteItem(route) ==
  [type |-> "route",
   name |-> route.method \o <<" ">> \o route.path,
   path |-> route.path,
   method |-> route.method,
   functionName |-> route.functionName,
   searchText |-> route.method \o <<" ">> \o route.path \o <<" ">>
                  \o route.functionName]
LambdaItem(lambda) ==
  [type |-> "lambda", name |-> lambda.name, searchText |-> lambda.name]
TableItem(table) ==
  [type |-> "table", name |-> table.name, searchText |-> table.name]

\* the items that init() flattens the manifest into
FlattenItems(data) ==
  (IF data.routes.has
   THEN [i \in 1..Len(data.routes.items) |-> RouteItem(data.routes.items[i])]
   ELSE <<>>)
  \o
  (IF data.lambdas.has
   THEN [i \in 1..Len(data.lambdas.items) |-> LambdaItem(data.lambdas.items[i])]
   ELSE <<>>)
  \o
  (IF data.tables.has
   THEN [i \in 1..Len(data.tables.items) |-> TableItem(data.tables.items[i])]
   ELSE <<>>)

\* a field holding a list, and the same field holding null or undefined
List(list) == [isNull |-> FALSE, list |-> list]
NoList == [isNull |-> TRUE, list |-> <<>>]

SearchOp(kind, query) ==
  [kind |-> kind, query |-> query, threw |-> FALSE, result |-> <<>>,
   grouped |-> [routes |-> <<>>, lambdas |-> <<>>, tables |-> <<>>]]

\* the state after `new ArcSearch(options)`
SearchNew ==
  /\ searchItems = NoList
  /\ fuse = NoList
  /\ lastResults = NoList
  /\ returned = [made |-> FALSE, query |-> <<>>, list |-> <<>>]
  /\ indexed = EmptyManifest
  /\ searchOp = SearchOp("none", <<>>)

\* init(arcData): with Fuse defined the index is a Fuse over the items;
\* with Fuse undefined, or with its constructor throwing, the items are kept
SearchInit(data, engine) ==
  /\ fuse' = IF engine = "fuse" THEN List(FlattenItems(data)) ELSE fuse
  /\ searchItems' = IF engine = "fuse" THEN searchItems ELSE List(FlattenItems(data))
  /\ indexed' = data
  /\ searchOp' = SearchOp("init", <<>>)
  /\ UNCHANGED <<lastResults, returned>>
  /\ UNCHANGED <<watcherVars, treeVars, nodeVars, domVars, linkVars, copyVars,
                 httpVars>>

\* !query || query.trim() === ''
Blank(query) == \A i \in 1..Len(query) : IsSpace(query[i])

Range(seq) == { seq[i] : i \in 1..Len(seq) }

\* what Fuse may answer: some of its items, each once, in any order
FuseResults(list) ==
  { s \in SeqsUpTo(Range(list), Len(list)) :
      \A i, j \in 1..Len(s) : i # j => s[i] # s[j] }

\* the substring test without lower-casing
FallbackFilterCaseSensitive(list, query) ==
  LET Hit(item) == Includes(item.searchText, query)
  IN  SelectSeq(list, Hit)

\* this.items.filter(item => item.searchText.toLowerCase().includes(lowerQuery))
FallbackFilter(list, query) ==
  LET lowerQuery == ToLowerCase(query)
      Hit(item) == Includes(ToLowerCase(item.searchText), lowerQuery)
  IN  SelectSeq(list, Hit)

\* a blank query that leaves this.lastResults as it was
LastAfterBlankKept(last) == last

\* this.lastResults = null
LastAfterBlank(last) == NoList

\* search(query), given what this.fuse.search(query) answers: the value
\* returned, or the TypeError of filtering items that init() never set
SearchCall(query, found) ==
  IF Blank(query)
  THEN [threw |-> FALSE, last |-> LastAfterBlank(lastResults), result |-> <<>>]
  ELSE IF ~fuse.isNull
       THEN [threw |-> FALSE, last |-> List(found), result |-> found]
       ELSE IF searchItems.isNull
            THEN [threw |-> TRUE, last |-> lastResults, result |-> <<>>]
            ELSE [threw |-> FALSE,
                  last |-> List(FallbackFilter(searchItems.list, query)),
                  result |-> FallbackFilter(searchItems.list, query)]

Answers(query) ==
  IF ~Blank(query) /\ ~fuse.isNull THEN FuseResults(fuse.list) ELSE {<<>>}

Search(query) ==
  /\ \E found \in Answers(query) :
       LET out == SearchCall(query, found)
       IN  /\ lastResults' = out.last
           /\ returned' = IF out.threw THEN returned
                          ELSE [made |-> TRUE, query |-> query,
                                list |-> out.result]
           /\ searchOp' = [SearchOp("search", query) EXCEPT
                             !.threw = out.threw, !.result = out.result]
  /\ UNCHANGED <<searchItems, fuse, indexed>>
  /\ UNCHANGED <<watcherVars, treeVars, nodeVars, domVars, linkVars, copyVars,
                 httpVars>>

\* the results of one type, last first
OfTypeReversed(results, type) ==
  LET Is(item) == item.type = type
      sel == SelectSeq(results, Is)
  IN  [i \in 1..Len(sel) |-> sel[Len(sel) + 1 - i]]

\* the results that forEach pushes to one of the three arrays
OfType(results, type) ==
  LET Is(item) == item.type = type
  IN  SelectSeq(results, Is)

GetGroupedResults(query) ==
  /\ \E found \in Answers(query) :
       LET out == SearchCall(query, found)
       IN  /\ lastResults' = out.last
           /\ returned' = IF out.threw THEN returned
                          ELSE [made |-> TRUE, query |-> query,
                                list |-> out.result]
           /\ searchOp' = [SearchOp("getGroupedResults", query) EXCEPT
                             !.threw = out.threw,
                             !.result = out.result,
                             !.grouped =
                                [routes |-> OfType(out.result, "route"),
                                 lambdas |-> OfType(out.result, "lambda"),
                                 tables |-> OfType(out.result, "table")]]
  /\ UNCHANGED <<searchItems, fuse, indexed>>
  /\ UNCHANGED <<watcherVars, treeVars, nodeVars, domVars, linkVars, copyVars,
                 httpVars>>

\* this.lastResults || []
GetLastResults ==
  /\ searchOp' = [SearchOp("getLastResults", <<>>) EXCEPT
                    !.result = IF lastResults.isNull THEN <<>>
                               ELSE lastResults.list]
  /\ UNCHANGED <<searchItems, fuse, lastResults, returned, indexed>>
  /\ UNCHANGED <<watcherVars, treeVars, nodeVars, domVars, linkVars, copyVars,
                 httpVars>>

\* simpleSearch matching a route on its method and path only
SimpleSearchOnNames(data, query) ==
  IF Blank(query)
  THEN [routes |-> <<>>, lambdas |-> <<>>, tables |-> <<>>]
  ELSE LET lowerQuery == ToLowerCase(query)
           RouteHit(route) ==
             Includes(ToLowerCase(route.method \o <<" ">> \o route.path),
                      lowerQuery)
           NameHit(entry) == Includes(ToLowerCase(entry.name), lowerQuery)
       IN  [routes |-> IF data.routes.has
                       THEN SelectSeq(data.routes.items, RouteHit) ELSE <<>>,
            lambdas |-> IF data.lambdas.has
                        THEN SelectSeq(data.lambdas.items, NameHit) ELSE <<>>,
            tables |-> IF data.tables.has
                       THEN SelectSeq(data.tables.items, NameHit) ELSE <<>>]

\* simpleSearch(arcData, query): the entries of each list of the manifest
\* whose text holds the query, letter case aside
SimpleSearch(data, query) ==
  IF Blank(query)
  THEN [routes |-> <<>>, lambdas |-> <<>>, tables |-> <<>>]
  ELSE LET lowerQuery == ToLowerCase(query)
           RouteHit(route) ==
             Includes(ToLowerCase(route.method \o <<" ">> \o route.path
                                  \o <<" ">> \o route.functionName),
                      lowerQuery)
           NameHit(entry) == Includes(ToLowerCase(entry.name), lowerQuery)
       IN  [routes |-> IF data.routes.has
                       THEN SelectSeq(data.routes.items, RouteHit) ELSE <<>>,
            lambdas |-> IF data.lambdas.has
                        THEN SelectSeq(data.lambdas.items, NameHit) ELSE <<>>,
            tables |-> IF data.tables.has
                       THEN SelectSeq(data.tables.items, NameHit) ELSE <<>>]

\* a caller runs simpleSearch on the manifest it gave to init
SimpleSearchCall(query) ==
  /\ searchOp' = [SearchOp("simpleSearch", query) EXCEPT
                    !.grouped = SimpleSearch(indexed, query)]
  /\ UNCHANGED <<searchItems, fuse, lastResults, returned, indexed>>
  /\ UNCHANGED <<watcherVars, treeVars, nodeVars, domVars, linkVars, copyVars,
                 httpVars>>

(***************************************************************************)
(* arc-file-linker                                                         *)
(***************************************************************************)
\* no getLinkPath() call made
NoLink ==
  /\ linkIn = [type |-> "", name |-> <<>>, method |-> <<>>, path |-> <<>>,
               form |-> "none"]
  /\ linkOut = [called |-> FALSE, isNull |-> TRUE, path |-> <<>>]
  /\ cache = {}

\* String.prototype.trim
RECURSIVE TrimEnd(_)
TrimEnd(str) ==
  IF str # <<>> /\ IsSpace(str[Len(str)])
  THEN TrimEnd(SubSeq(str, 1, Len(str) - 1))
  ELSE str

Trim(str) == TrimEnd(SkipSpaces(str))

\* String.prototype.split(/\s+/)
RECURSIVE SplitSpacesFrom(_, _)
SplitSpacesFrom(str, part) ==
  IF str = <<>> THEN <<part>>
  ELSE IF IsSpace(Head(str))
       THEN <<part>> \o SplitSpacesFrom(SkipSpaces(str), <<>>)
       ELSE SplitSpacesFrom(Tail(str), Append(part, Head(str)))

SplitSpaces(str) == SplitSpacesFrom(str, <<>>)

\* Array.prototype.join
RECURSIVE Join(_, _)
Join(parts, sep) ==
  IF parts = <<>> THEN <<>>
  ELSE IF Len(parts) = 1 THEN parts[1]
       ELSE parts[1] \o sep \o Join(Tail(parts), sep)

\* the parts as split() gives them, the empty ones included
AllParts(parts) == parts

\* .filter(Boolean) on strings: the non-empty ones
NonEmptyParts(parts) ==
  LET Truthy(part) == part # <<>>
  IN  SelectSeq(parts, Truthy)

\* routeToPath(routeDefinition)
RouteToPath(routeDefinition) ==
  LET parts == SplitSpaces(Trim(routeDefinition))
      two == Len(parts) = 2
      method == IF two THEN ToLowerCase(parts[1]) ELSE <<"g", "e", "t">>
      path == IF two THEN parts[2] ELSE routeDefinition
      pathSegments ==
        ToLowerCase(Join(NonEmptyParts(Split(path, "/")), <<"-">>))
  IN  <<"s", "r", "c", "/", "h", "t", "t", "p", "/">> \o method \o <<"-">>
      \o pathSegments
      \o <<"/", "i", "n", "d", "e", "x", ".", "m", "j", "s">>

LinkResult(path) == [called |-> TRUE, isNull |-> FALSE, path |-> path]

\* getLinkPath(nodeType, nodeName)
GetLinkPathResult(nodeType, nodeName) ==
  CASE nodeType = "route" -> LinkResult(RouteToPath(nodeName))
    [] nodeType = "lambda" ->
         LinkResult(<<"s", "r", "c", "/", "l", "a", "m", "b", "d", "a", "s",
                      "/">> \o nodeName)
    [] nodeType = "table" ->
         LinkResult(<<"s", "r", "c", "/", "t", "a", "b", "l", "e", "s", "/">>
                    \o nodeName \o <<".", "t", "s">>)
    [] OTHER -> [called |-> TRUE, isNull |-> TRUE, path |-> <<>>]

GetLinkPath ==
  /\ linkOut' = GetLinkPathResult(linkIn.type, linkIn.name)
  /\ UNCHANGED <<linkIn, cache>>
  /\ UNCHANGED <<watcherVars, treeVars, nodeVars, domVars, searchVars, copyVars,
                 httpVars>>

\* the arguments: a type, and a name that is "METHOD /p", a bare "/p", or
\* some other string
LinkTypes == {"route", "lambda", "table", "routes", ""}
LinkMethods == { <<"G", "E", "T">>, <<"P", "u", "t">> }
ApiUsers == <<"/", "a", "p", "i", "/", "u", "s", "e", "r", "s">>
LinkPaths ==
  { <<"/">> \o rest : rest \in SeqsUpTo({"/", "a", "B"}, MaxPath) }
  \cup {ApiUsers}
OtherNames ==
  { <<>>, <<"G", "E", "T">>, <<" ", "G", "E", "T", " ", " ", "/", "a", " ">>,
    <<"G", "E", "T", "\t", "/", "a">>, <<"G", "E", "T", " ", "/", "a", " ", "b">>,
    <<" ", "/", "a">>, <<"n", "1">> }

LinkInputs ==
  { [type |-> t, name |-> m \o <<" ">> \o p, method |-> m, path |-> p,
     form |-> "method"] : t \in LinkTypes, m \in LinkMethods, p \in LinkPaths }
  \cup
  { [type |-> t, name |-> p, method |-> <<>>, path |-> p, form |-> "bare"] :
      t \in LinkTypes, p \in LinkPaths }
  \cup
  { [type |-> t, name |-> n, method |-> <<>>, path |-> <<>>,
     form |-> "other"] : t \in LinkTypes, n \in OtherNames }

\* the characters of a type argument
TypeChars(type) ==
  CASE type = "route" -> <<"r", "o", "u", "t", "e">>
    [] type = "lambda" -> <<"l", "a", "m", "b", "d", "a">>
    [] type = "lambda:x" -> <<"l", "a", "m", "b", "d", "a", ":", "x">>
    [] type = "table" -> <<"t", "a", "b", "l", "e">>
    [] type = "routes" -> <<"r", "o", "u", "t", "e", "s">>
    [] type = "" -> <<>>

\* `${nodeType}:${nodeName}`
CacheKey(nodeType, nodeName) == TypeChars(nodeType) \o <<":">> \o nodeName

\* Map.prototype.has and Map.prototype.get
CacheHas(key) == \E e \in cache : e.key = key
CacheGet(key) == (CHOOSE e \in cache : e.key = key).value

\* ArcFileLinker.getLink(nodeType, nodeName)
GetLink(nodeType, nodeName) ==
  LET key == CacheKey(nodeType, nodeName)
      link == GetLinkPathResult(nodeType, nodeName)
  IN  /\ linkIn' = [type |-> nodeType, name |-> nodeName, method |-> <<>>,
                    path |-> <<>>, form |-> "getLink"]
      /\ IF CacheHas(key)
         THEN /\ linkOut' = CacheGet(key)
              /\ cache' = cache
         ELSE /\ linkOut' = link
              /\ cache' = cache \cup {[key |-> key, value |-> link]}
      /\ UNCHANGED <<watcherVars, treeVars, nodeVars, domVars, searchVars,
                     copyVars, httpVars>>

\* the arguments of getLink
GetLinkTypes == {"route", "lambda", "lambda:x", ""}
GetLinkNames ==
  { <<"G", "E", "T", " ", "/", "a">>, <<"y">>, <<"x", ":", "y">> }

(***************************************************************************)
(* ArcCopy (arc-copy.js): copy, its execCommand fallback, the toasts and   *)
(* the buttons made by createCopyButton and createArnButton.  Time is the  *)
(* number of milliseconds each armed timer still has to run.               *)
(***************************************************************************)

\* options.toastDuration || 2000
DefaultToastDuration == 2000
\* setTimeout(..., 10) of showToast
ShowDelay == 10
\* setTimeout(..., 300) of showToast
RemoveDelay == 300

\* the label of a createArnButton button
LinkIcon == "link"

\* what copy last did: the call, whether it has settled, the promise's value,
\* what the clipboard or execCommand did, the toasts there were before
CopyOp(kind, settled, result, outcome, before) ==
  [kind |-> kind, settled |-> settled, result |-> result, threw |-> FALSE,
   outcome |-> outcome, toastsBefore |-> before]

\* a page without a copier at work
NoCopier ==
  /\ secure = TRUE
  /\ toastDuration = DefaultToastDuration
  /\ toasts = <<>>
  /\ timers = <<>>
  /\ textareas = 0
  /\ writes = <<>>
  /\ button = [label |-> CopyIcon, disabled |-> FALSE, original |-> CopyIcon]
  /\ copyOp = CopyOp("none", FALSE, FALSE, "none", 0)

\* the toast element showToast creates and appends to its container
NewToast(type) ==
  [type |-> type, attached |-> TRUE, shown |-> FALSE,
   events |-> <<"appended">>]

Timer(kind, toast, label, delay) ==
  [kind |-> kind, toast |-> toast, label |-> label, remaining |-> delay]

\* the two timers showToast arms for the toast numbered n
ToastTimers(n) ==
  << Timer("show", n, "", ShowDelay), Timer("hide", n, "", toastDuration) >>

\* the timer a button's click handler arms once copyRoute or copyArn settled
RestoreTimer(from, originalText) ==
  IF from = "button"
  THEN << Timer("restore", 0, originalText, toastDuration) >>
  ELSE << >>

\* what document.execCommand('copy') can do
ExecOutcomes == {"true", "false", "throws"}

\* the value copyUsingExecCommand returns
ExecResultOptimistic(exec) == exec # "throws"
ExecResult(exec) == exec = "true"

\* the temporary textareas copyUsingExecCommand leaves in the document
TextareasLeftOnThrow(exec) == IF exec = "throws" THEN 1 ELSE 0
TextareasLeft(exec) == 0

\* button.textContent and button.disabled right after a click
ClickedButtonEnabled(b) ==
  [label |-> "check", disabled |-> FALSE, original |-> b.original]
ClickedButton(b) ==
  [label |-> "check", disabled |-> TRUE, original |-> b.original]

\* showToast as a copier that reports failures on the console only
ShowToastSuccessOnly(type, from, originalText) ==
  /\ toasts' = IF type = "error" THEN toasts
               ELSE Append(toasts, NewToast(type))
  /\ timers' = (IF type = "error" THEN timers
                ELSE timers \o ToastTimers(Len(toasts) + 1))
               \o RestoreTimer(from, originalText)

\* showToast(message, type), followed by the caller's restore timer
ShowToast(type, from, originalText) ==
  /\ toasts' = Append(toasts, NewToast(type))
  /\ timers' = timers \o ToastTimers(Len(toasts) + 1)
                      \o RestoreTimer(from, originalText)

\* copy(text), called directly (from = "call") or by the click handler of a
\* factory-made button (from = "button"); exec is what execCommand does when
\* the fallback is taken
Copy(from, exec) ==
  /\ Len(toasts) + Len(writes) < MaxToasts
  /\ from = "button" => ~button.disabled
  /\ button' = IF from = "button" THEN ClickedButton(button) ELSE button
  /\ IF secure
     THEN /\ writes' = Append(writes, [from |-> from, original |-> button.label])
          /\ copyOp' = CopyOp(from, FALSE, FALSE, "pending", Len(toasts))
          /\ UNCHANGED <<toasts, timers, textareas>>
     ELSE /\ ShowToast(IF ExecResult(exec) THEN "success" ELSE "error",
                       from, button.label)
          /\ textareas' = textareas + TextareasLeft(exec)
          /\ copyOp' = CopyOp(from, TRUE, ExecResult(exec), exec, Len(toasts))
          /\ UNCHANGED writes
  /\ UNCHANGED <<secure, toastDuration>>
  /\ UNCHANGED <<watcherVars, treeVars, nodeVars, domVars, searchVars,
                 linkVars, httpVars>>

\* navigator.clipboard.writeText settles: copy resumes after its await
WriteSettles(i, ok) ==
  /\ i \in 1..Len(writes)
  /\ writes' = Remove(writes, i)
  /\ ShowToast(IF ok THEN "success" ELSE "error", writes[i].from,
               writes[i].original)
  /\ copyOp' = CopyOp(writes[i].from, TRUE, ok,
                      IF ok THEN "written" ELSE "rejected", Len(toasts))
  /\ UNCHANGED <<secure, toastDuration, textareas, button>>
  /\ UNCHANGED <<watcherVars, treeVars, nodeVars, domVars, searchVars,
                 linkVars, httpVars>>

\* the timer the event loop runs next: the earliest due, the first armed
\* among those due together
Soonest(ts) ==
  CHOOSE i \in 1..Len(ts) :
    /\ \A j \in 1..Len(ts) : ts[i].remaining <= ts[j].remaining
    /\ \A j \in 1..(i - 1) : ts[j].remaining > ts[i].remaining

Elapse(ts, ms) ==
  [j \in 1..Len(ts) |-> [ts[j] EXCEPT !.remaining = @ - ms]]

\* a toast after one of its timers ran
Stamp(t, event) ==
  [t EXCEPT !.events = Append(@, event),
            !.shown = IF event = "shown" THEN TRUE
                      ELSE IF event = "hidden" THEN FALSE ELSE @,
            !.attached = IF event = "removed" THEN FALSE ELSE @]

\* the next timer callback runs
TimerFires ==
  /\ timers # <<>>
  /\ LET i == Soonest(timers)
         t == timers[i]
         rest == Elapse(Remove(timers, i), t.remaining)
     IN  /\ CASE t.kind = "show" ->
                   /\ toasts' = [toasts EXCEPT ![t.toast] = Stamp(@, "shown")]
                   /\ timers' = rest
                   /\ UNCHANGED button
              [] t.kind = "hide" ->
                   /\ toasts' = [toasts EXCEPT ![t.toast] = Stamp(@, "hidden")]
                   /\ timers' = Append(rest,
                                       Timer("remove", t.toast, "", RemoveDelay))
                   /\ UNCHANGED button
              [] t.kind = "remove" ->
                   /\ toasts' = [toasts EXCEPT ![t.toast] = Stamp(@, "removed")]
                   /\ timers' = rest
                   /\ UNCHANGED button
              [] t.kind = "restore" ->
                   /\ button' = [button EXCEPT !.label = t.label,
                                               !.disabled = FALSE]
                   /\ timers' = rest
                   /\ UNCHANGED toasts
         /\ copyOp' = CopyOp(t.kind, copyOp.settled, copyOp.result,
                             copyOp.outcome, copyOp.toastsBefore)
  /\ UNCHANGED <<secure, toastDuration, textareas, writes>>
  /\ UNCHANGED <<watcherVars, treeVars, nodeVars, domVars, searchVars,
                 linkVars, httpVars>>

\* time passes without any timer coming due
Waits == {RemoveDelay, DefaultToastDuration \div 2}

Wait(ms) ==
  /\ timers # <<>>
  /\ ms < timers[Soonest(timers)].remaining
  /\ timers' = Elapse(timers, ms)
  /\ UNCHANGED <<secure, toastDuration, toasts, textareas, writes, button,
                 copyOp>>
  /\ UNCHANGED <<watcherVars, treeVars, nodeVars, domVars, searchVars,
                 linkVars, httpVars>>

\* the toastDuration options a copier is made with
ToastDurations == {DefaultToastDuration, ShowDelay \div 2}

\* no request handled yet
NoRequests ==
  /\ atmLog = <<>>
  /\ pageCache = {}
  /\ files = {}
  /\ docsOp = [kind |-> "none", lang |-> <<>>, proxy |-> <<>>,
               fault |-> "none", status |-> "", location |-> <<>>,
               hit |-> FALSE, cacheBefore |-> {}]
(***************************************************************************)
(* The ATM handler (src/http/get-api-atm/index.mjs).  A number is NaN, an  *)
(* infinity or the fraction num / den with den a power of ten; rounding of *)
(* binary floating point is not represented.                               *)
(***************************************************************************)

NaN == [kind |-> "nan", num |-> 0, den |-> 1]
Infinite(negative) ==
  [kind |-> "inf", num |-> IF negative THEN 0 - 1 ELSE 1, den |-> 1]

RECURSIVE Pow10(_)
Pow10(n) == IF n <= 0 THEN 1 ELSE 10 * Pow10(n - 1)

\* the fraction num / den in lowest powers of ten
RECURSIVE Number(_, _)
Number(num, den) ==
  IF den > 1 /\ num % 10 = 0 THEN Number(num \div 10, den \div 10)
  ELSE [kind |-> "num", num |-> num, den |-> den]

\* how many decimal digits str starts with
RECURSIVE DigitRun(_)
DigitRun(str) ==
  IF str # <<>> /\ DigitValue(DecDigits, Head(str)) >= 0
  THEN 1 + DigitRun(Tail(str))
  ELSE 0

Drop(str, n) == SubSeq(str, n + 1, Len(str))

InfinityText == <<"I", "n", "f", "i", "n", "i", "t", "y">>

\* the exponent a text starts with (e or E, a sign, digits): 0 if none
ExponentPart(s) ==
  LET signed == Len(s) >= 2 /\ s[1] \in {"e", "E"} /\ s[2] \in {"-", "+"}
      digits == IF s # <<>> /\ s[1] \in {"e", "E"}
                THEN Drop(s, IF signed THEN 2 ELSE 1)
                ELSE <<>>
      value == IF DigitRun(digits) > 0
               THEN ReadDigits(digits, DecDigits, FALSE, 0).value
               ELSE 0
  IN  IF signed /\ s[2] = "-" THEN 0 - value ELSE value

\* the number with these digits, fracLen of them after the point, times ten
\* to the power exp
Scaled(negative, mantissa, fracLen, exp) ==
  Number((IF negative THEN 0 - mantissa ELSE mantissa) * Pow10(exp),
         Pow10(fracLen) * Pow10(0 - exp))

\* the longest decimal literal s starts with: digits, a fraction, an exponent
StrDecimalLiteral(s, negative) ==
  LET intLen == DigitRun(s)
      dot == Len(s) > intLen /\ s[intLen + 1] = "."
      fracLen == IF dot THEN DigitRun(Drop(s, intLen + 1)) ELSE 0
      digits == SubSeq(s, 1, intLen)
                  \o SubSeq(s, intLen + 2, intLen + 1 + fracLen)
      rest == Drop(s, intLen + (IF dot THEN 1 + fracLen ELSE 0))
  IN  IF intLen = 0 /\ fracLen = 0 THEN NaN
      ELSE Scaled(negative, ReadDigits(digits, DecDigits, FALSE, 0).value,
                  fracLen, ExponentPart(rest))

\* parseFloat(str): leading white space, a sign, then Infinity or the longest
\* decimal literal the string starts with
ParseFloat(str) ==
  LET s1 == SkipSpaces(str)
      signed == s1 # <<>> /\ Head(s1) \in {"-", "+"}
      s2 == IF signed THEN Tail(s1) ELSE s1
      negative == signed /\ Head(s1) = "-"
  IN  IF StartsWith(s2, InfinityText) THEN Infinite(negative)
      ELSE StrDecimalLiteral(s2, negative)

\* x || 0 for a number x
OrZero(x) ==
  IF x.kind = "nan" \/ (x.kind = "num" /\ x.num = 0) THEN Number(0, 1) ELSE x

\* parseFloat(queryParams.amount) || 0, for a request that may lack the query
\* string parameters or the amount among them
Amount(req) ==
  OrZero(IF req.params /\ req.given THEN ParseFloat(req.text) ELSE NaN)

accountBalance == 1000

\* amount <= 0
NotPositiveStrict(a) == a.num < 0
NotPositive(a) == a.num <= 0

\* amount > accountBalance
Exceeds(a, balance) ==
  IF a.kind = "inf" THEN a.num > 0 ELSE a.num > balance * a.den

\* accountBalance - amount
Minus(balance, a) == Number(balance * a.den - a.num, a.den)

NoTransaction == [amount |-> NaN, previousBalance |-> 0, newBalance |-> NaN,
                  timestamp |-> 0]

\* the response for the amount read, made at the time now
Withdraw(amount, now) ==
  IF NotPositive(amount)
  THEN [statusCode |-> 400, success |-> FALSE,
        error |-> "Withdrawal amount must be greater than zero",
        transaction |-> NoTransaction]
  ELSE IF Exceeds(amount, accountBalance)
  THEN [statusCode |-> 400, success |-> FALSE,
        error |-> "Insufficient funds", transaction |-> NoTransaction]
  ELSE [statusCode |-> 200, success |-> TRUE, error |-> "",
        transaction |->
          [amount |-> amount, previousBalance |-> accountBalance,
           newBalance |-> Minus(accountBalance, amount),
           timestamp |-> now]]

\* handler(req), answering at the time now
AtmResponse(req, now) == Withdraw(Amount(req), now)

\* the last requests and their responses, the latest last
Latest(log) ==
  IF Len(log) > MaxRequests THEN Tail(log) ELSE log

\* a GET /api/atm request is handled
AtmRequest(req, now) ==
  /\ \E res \in {AtmResponse(req, now)} :
       atmLog' = Latest(Append(atmLog, [req |-> req, res |-> res]))
  /\ UNCHANGED <<pageCache, files, docsOp>>
  /\ UNCHANGED <<watcherVars, treeVars, nodeVars, domVars, searchVars,
                 linkVars, copyVars>>

\* the amount parameters requests come with, each with the number it stands
\* for (what a reader of the decimal text up to its first foreign character
\* takes it to be); kind "none" where the text starts with no number
AtmAmounts ==
  { [text |-> <<"5", "0">>, kind |-> "num", num |-> 50, den |-> 1],
    [text |-> <<"1", "0", "0", "0">>, kind |-> "num", num |-> 1000, den |-> 1],
    [text |-> <<"1", "0", "0", "0", ".", "5">>, kind |-> "num", num |-> 10005,
     den |-> 10],
    [text |-> <<"2", "0", "0", "0">>, kind |-> "num", num |-> 2000, den |-> 1],
    [text |-> <<"0">>, kind |-> "num", num |-> 0, den |-> 1],
    [text |-> <<"-", "5">>, kind |-> "num", num |-> 0 - 5, den |-> 1],
    [text |-> <<".", "5">>, kind |-> "num", num |-> 5, den |-> 10],
    [text |-> <<" ", "+", "7", ".", "2", "5">>, kind |-> "num", num |-> 725,
     den |-> 100],
    [text |-> <<"1", "e", "3">>, kind |-> "num", num |-> 1000, den |-> 1],
    [text |-> <<"5", "e", "-", "1">>, kind |-> "num", num |-> 5, den |-> 10],
    [text |-> <<"5", "0", "a", "b", "c">>, kind |-> "num", num |-> 50,
     den |-> 1],
    [text |-> InfinityText, kind |-> "inf", num |-> 1, den |-> 1],
    [text |-> <<"a", "b", "c">>, kind |-> "none", num |-> 0, den |-> 1],
    [text |-> <<>>, kind |-> "none", num |-> 0, den |-> 1] }

AtmRequests ==
  { [params |-> TRUE, given |-> TRUE, text |-> a.text] : a \in AtmAmounts }
    \cup { [params |-> p, given |-> FALSE, text |-> <<>>] : p \in BOOLEAN }

\* the times at which a request is answered
Times == 1..MaxRequests

(***************************************************************************)
(* The docs page handler (views/docs/en/:tutorials/omni-wallet-atm.md,     *)
(* lines 290-460).  The table of contents is a sequence of entries: a      *)
(* document (a string in the source) or a category (a key with its list).  *)
(***************************************************************************)

Doc(title) == [leaf |-> TRUE, title |-> title, items |-> <<>>]
Category(title, items) == [leaf |-> FALSE, title |-> title, items |-> items]

\* the table of contents the handler imports
toc ==
  << Category(<<"G", "e", "t", " ", "s", "t", "a", "r", "t", "e", "d">>,
              << Doc(<<"W", "h", "y", " ", "A", "r", "c", "h", "i", "t",
                  "e", "c", "t">>), Doc(<<"Q", "u", "i", "c", "k", "s", "t",
                  "a", "r", "t">>) >>),
     Category(<<"G", "u", "i", "d", "e", "s">>,
              << Category(<<"D", "e", "v", " ", "t", "o", "o", "l", "s">>,
                          << Doc(<<"L", "o", "c", "a", "l", " ", "d", "e",
                              "v">>) >>),
                 Doc(<<"E", "x", "t", "r", "a", "s">>) >>) >>

\* slugify(title): lower case, white space to dashes
Slugify(title) ==
  [i \in 1..Len(title) |->
     IF IsSpace(title[i]) THEN "-" ELSE ToLowerCase(title)[i]]

NoPath == [isNull |-> TRUE, path |-> <<>>]
DocPath(path) == [isNull |-> FALSE, path |-> path]

\* the item at which the loops of getFirstLeaf return
LastItem(data) == data[Len(data)]
FirstItem(data) == data[1]

\* getFirstLeaf(data, pathPrefix)
RECURSIVE GetFirstLeaf(_, _)
GetFirstLeaf(data, pathPrefix) ==
  IF data = <<>> THEN NoPath
  ELSE IF FirstItem(data).leaf
       THEN DocPath(pathPrefix \o <<"/">> \o Slugify(FirstItem(data).title))
       ELSE GetFirstLeaf(FirstItem(data).items,
                         pathPrefix \o <<"/">>
                                    \o Slugify(FirstItem(data).title))

\* the entries of data findFirstDocPath compares a segment with
Keys(data) == {i \in 1..Len(data) : ~data[i].leaf}

\* findFirstDocPath(data, segments, pathPrefix)
RECURSIVE FindFirstDocPath(_, _, _)
FindFirstDocPath(data, segments, pathPrefix) ==
  IF segments = <<>> THEN GetFirstLeaf(data, pathPrefix)
  ELSE LET found == {i \in Keys(data) : Slugify(data[i].title) = Head(segments)}
       IN  IF found = {} THEN NoPath
           ELSE LET i == CHOOSE k \in found : \A j \in found : k <= j
                IN  FindFirstDocPath(data[i].items, Tail(segments),
                                     pathPrefix \o <<"/">> \o Head(segments))

\* path.join of the segments of a file path: empty segments vanish
RECURSIVE JoinPath(_)
JoinPath(segments) ==
  IF segments = <<>> THEN <<>>
  ELSE IF Head(segments) = <<>> THEN JoinPath(Tail(segments))
       ELSE <<Head(segments)>> \o JoinPath(Tail(segments))

Front(seq) == SubSeq(seq, 1, Len(seq) - 1)
Last(seq) == seq[Len(seq)]

MdSuffix == <<".", "m", "d">>

\* the response and what the handler did to produce it
DocsOp(lang, proxy, fault, status, location, hit, before) ==
  [kind |-> "docs", lang |-> lang, proxy |-> proxy, fault |-> fault,
   status |-> status, location |-> location, hit |-> hit,
   cacheBefore |-> before]

\* handler(req) for /docs/:lang/*proxy; fault is what goes wrong, if
\* anything, when the document is read and rendered
DocsRequest(lang, proxy, fault) ==
  LET parts == Front(Split(proxy, "/"))
      docName == Last(Split(proxy, "/"))
      filePath == JoinPath(<<lang>> \o parts \o <<docName \o MdSuffix>>)
      categoryPath ==
        FindFirstDocPath(toc, Append(parts, docName),
                         <<"/", "d", "o", "c", "s", "/">> \o lang)
      Respond(status, location) ==
        docsOp' = DocsOp(lang, proxy, fault, status, location,
                         filePath \in pageCache, pageCache)
  IN  /\ IF docName = <<"p", "l", "a", "y", "g", "r", "o", "u", "n", "d">>
         THEN Respond("303", <<"/", "p", "l", "a", "y", "g", "r", "o", "u",
             "n", "d">>) /\ UNCHANGED pageCache
         ELSE IF filePath \in pageCache
         THEN Respond("200", <<>>) /\ UNCHANGED pageCache
         ELSE IF filePath \in files /\ fault = "none"
         THEN Respond("200", <<>>) /\ pageCache' = pageCache \cup {filePath}
         ELSE IF filePath \notin files /\ ~categoryPath.isNull
         THEN Respond("302", categoryPath.path) /\ UNCHANGED pageCache
         ELSE Respond("notFound", <<>>) /\ UNCHANGED pageCache
      /\ UNCHANGED <<atmLog, files>>
      /\ UNCHANGED <<watcherVars, treeVars, nodeVars, domVars, searchVars,
                     linkVars, copyVars>>

\* what can go wrong once the file is there: nothing, the file cannot be
\* read (an error other than ENOENT), rendering throws
Faults == {"none", "EACCES", "render"}

Langs == { <<"e", "n">>, <<"f", "r">> }

\* the documents of the table of contents, as files of the en tree
DocFiles ==
  { << <<"e", "n">>, <<"g", "e", "t", "-", "s", "t", "a", "r", "t", "e",
      "d">>, <<"w", "h", "y", "-", "a", "r", "c", "h", "i", "t", "e", "c",
      "t", ".", "m", "d">> >>,
    << <<"e", "n">>, <<"g", "e", "t", "-", "s", "t", "a", "r", "t", "e",
        "d">>, <<"q", "u", "i", "c", "k", "s", "t", "a", "r", "t", ".", "m",
        "d">> >>,
    << <<"e", "n">>, <<"g", "u", "i", "d", "e", "s">>, <<"d", "e", "v", "-",
        "t", "o", "o", "l", "s">>, <<"l", "o", "c", "a", "l", "-", "d", "e",
        "v", ".", "m", "d">> >>,
    << <<"e", "n">>, <<"g", "u", "i", "d", "e", "s">>, <<"e", "x", "t", "r",
        "a", "s", ".", "m", "d">> >> }

\* the proxy parts of the requests
Proxies ==
  { <<"g", "e", "t", "-", "s", "t", "a", "r", "t", "e", "d">>,
    <<"g", "e", "t", "-", "s", "t", "a", "r", "t", "e", "d", "/", "w", "h",
        "y", "-", "a", "r", "c", "h", "i", "t", "e", "c", "t">>,
    <<"g", "u", "i", "d", "e", "s">>,
    <<"g", "u", "i", "d", "e", "s", "/", "d", "e", "v", "-", "t", "o", "o",
        "l", "s">>,
    <<"g", "u", "i", "d", "e", "s", "/", "d", "e", "v", "-", "t", "o", "o",
        "l", "s", "/", "l", "o", "c", "a", "l", "-", "d", "e", "v">>,
    <<"g", "u", "i", "d", "e", "s", "/", "e", "x", "t", "r", "a", "s">>,
    <<"n", "o", "p", "e">>,
    <<"g", "u", "i", "d", "e", "s", "/", "n", "o", "p", "e">>,
    <<"p", "l", "a", "y", "g", "r", "o", "u", "n", "d">>,
    <<"g", "e", "t", "-", "s", "t", "a", "r", "t", "e", "d", "/">>,
    <<"G", "u", "i", "d", "e", "s">>,
    <<>> }


(***************************************************************************)
(* Specifications                                                          *)
(***************************************************************************)
\* the watcher's lifecycle with its event loop: start, stop, sockets,
\* reconnects, polls and messages
Init ==
  /\ WatcherInit /\ TreeViewerIdle /\ NoLookup /\ SearchNew /\ NoLink
  /\ NoCopier /\ NoRequests

Next ==
  \/ \E throws \in BOOLEAN : Start(throws)
  \/ Stop
  \/ WsOpen
  \/ \E k \in MessageKinds, d \in Snapshots : WsMessage(k, d)
  \/ \E from \in {"connecting", "open"} : WsError(from)
  \/ \E from \in {"failed", "open"} : WsClose(from)
  \/ \E throws \in BOOLEAN : ReconnectTimerFires(throws)
  \/ \E which \in {"current", "other"} : PollTimerFires(which)
  \/ FetchOk
  \/ \E why \in {"network", "status"} : PollFails("fetch", why)
  \/ PollFails("json", "parse")
  \/ \E d \in Snapshots : PollSucceeds(d, FALSE)

Spec == Init /\ [][Next]_vars

\* the watcher's emitter: listeners come and go while a started watcher
\* receives messages and polls
NextEmit ==
  \/ \E throws \in BOOLEAN : Start(throws)
  \/ \E e \in Events, cb \in Callbacks : On(e, cb)
  \/ \E e \in Events, cb \in Callbacks : Off(e, cb)
  \/ WsOpen
  \/ \E k \in MessageKinds, d \in Snapshots : WsMessage(k, d)
  \/ \E from \in {"connecting", "open"} : WsError(from)
  \/ \E which \in {"current", "other"} : PollTimerFires(which)
  \/ FetchOk
  \/ \E why \in {"network", "status"} : PollFails("fetch", why)
  \/ PollFails("json", "parse")
  \/ \E d \in Snapshots : PollSucceeds(d, FALSE)

SpecEmit == Init /\ [][NextEmit]_vars

\* the watcher started and never stopped, with its successful polls recorded
NextPolling ==
  \/ \E throws \in BOOLEAN : Start(throws)
  \/ \E from \in {"connecting", "open"} : WsError(from)
  \/ WsOpen
  \/ \E from \in {"failed", "open"} : WsClose(from)
  \/ \E throws \in BOOLEAN : ReconnectTimerFires(throws)
  \/ \E which \in {"current", "other"} : PollTimerFires(which)
  \/ FetchOk
  \/ \E why \in {"network", "status"} : PollFails("fetch", why)
  \/ PollFails("json", "parse")
  \/ \E d \in Snapshots : PollSucceeds(d, TRUE)

SpecPolling == Init /\ [][NextPolling]_vars

\* the watcher's lifecycle under an event loop that runs every due timer:
\* a poll timer that stays pending fires
PollTimerDue == \E which \in {"current", "other"} : PollTimerFires(which)

NextLive ==
  \/ \E throws \in BOOLEAN : Start(throws)
  \/ Stop
  \/ WsOpen
  \/ \E from \in {"connecting", "open"} : WsError(from)
  \/ \E from \in {"failed", "open"} : WsClose(from)
  \/ \E throws \in BOOLEAN : ReconnectTimerFires(throws)
  \/ PollTimerDue
  \/ FetchOk
  \/ \E why \in {"network", "status"} : PollFails("fetch", why)
  \/ PollFails("json", "parse")
  \/ \E d \in Snapshots : PollSucceeds(d, FALSE)

SpecLive == Init /\ [][NextLive]_vars /\ WF_vars(PollTimerDue)

\* the tree viewer
InitTree ==
  /\ TreeViewerNew /\ WatcherInit /\ onArcChanged = "ok" /\ NoLookup
  /\ SearchNew /\ NoLink
  /\ NoCopier /\ NoRequests

\* the viewer is constructed with any manifest of Manifests; the manifests
\* later given to init() are those of DomManifests
NextTree ==
  \/ \E m \in DomManifests : TreeViewerInit(TRUE, m)
  \/ TreeViewerInit(FALSE, EmptyManifest)
  \/ \E cat \in Categories : ToggleChange(cat)

SpecTree == InitTree /\ [][NextTree]_vars

\* the tree viewer asked for nodes by id
InitNode ==
  /\ WatcherInit /\ onArcChanged = "ok"
  /\ arcData \in Manifests \cup {LongManifest}
  /\ toggleStates = [c \in Categories |-> TRUE]
  /\ checkboxes = [c \in Categories |-> FALSE]
  /\ tree = <<>>
  /\ rendered = FALSE
  /\ NoLookup
  /\ NoDocument
  /\ SearchNew
  /\ NoLink
  /\ NoCopier
  /\ NoRequests

NextNode ==
  \/ TreeViewerInit(FALSE, EmptyManifest)
  \/ \E cat \in Categories : ToggleChange(cat)
  \/ \E id \in OtherNodeIds \cup ChildIds(tree) : GetNode(id)

SpecNode == InitNode /\ [][NextNode]_vars

\* the rendered tree under clicks
InitDom ==
  /\ WatcherInit /\ onArcChanged = "ok"
  /\ arcData \in DomManifests
  /\ toggleStates = [c \in Categories |-> TRUE]
  /\ checkboxes = [c \in Categories |-> FALSE]
  /\ tree = <<>>
  /\ rendered = FALSE
  /\ NoLookup
  /\ NoDocument
  /\ SearchNew
  /\ NoLink
  /\ NoCopier
  /\ NoRequests

ClickTargets ==
  {"tree-node", "tree-node-content", "tree-icon", "tree-label",
   "tree-toggle", "tree-toggle-empty", "copy-btn"}

NextDom ==
  \/ \E m \in DomManifests : TreeViewerInit(TRUE, m)
  \/ TreeViewerInit(FALSE, EmptyManifest)
  \/ \E cat \in Categories : ToggleChange(cat)
  \/ \E cat \in Categories, idx \in 0..MaxList, target \in ClickTargets :
       Click([cat |-> cat, idx |-> idx], target)

SpecDom == InitDom /\ [][NextDom]_vars

\* the copy buttons of a rendered tree, with the clipboard settling either
\* way and the label timers firing
InitCopy ==
  /\ WatcherInit /\ onArcChanged = "ok"
  /\ arcData = RoutesManifest
  /\ toggleStates = [c \in Categories |-> TRUE]
  /\ checkboxes = [c \in Categories |-> FALSE]
  /\ tree = <<>>
  /\ rendered = FALSE
  /\ NoLookup
  /\ NoDocument
  /\ SearchNew
  /\ NoLink
  /\ NoCopier
  /\ NoRequests

NextCopy ==
  \/ TreeViewerInit(FALSE, EmptyManifest)
  \/ ToggleChange("routes")
  \/ \E idx \in 1..MaxList : Click([cat |-> "routes", idx |-> idx], "copy-btn")
  \/ \E i \in 1..MaxCopies, ok \in BOOLEAN : CopySettles(i, ok)
  \/ CopyTimerFires

SpecCopy == InitCopy /\ [][NextCopy]_vars

\* the rendered tree under searches, with the expand affordances in use
NextFilter ==
  \/ \E m \in DomManifests : TreeViewerInit(TRUE, m)
  \/ TreeViewerInit(FALSE, EmptyManifest)
  \/ \E cat \in Categories : ToggleChange(cat)
  \/ \E cat \in Categories : Click([cat |-> cat, idx |-> 0], "tree-toggle")
  \/ \E query \in Queries : FilterTree(query)

SpecFilter == InitDom /\ [][NextFilter]_vars

\* the search index: re-indexing with or without the fuzzy engine, queries
InitSearch ==
  /\ WatcherInit /\ TreeViewerIdle /\ NoLookup /\ SearchNew /\ NoLink
  /\ NoCopier /\ NoRequests

NextSearch ==
  \/ \E data \in SearchManifests, engine \in {"fuse", "absent", "throws"} :
       SearchInit(data, engine)
  \/ \E query \in SearchQueries : Search(query)
  \/ \E query \in SearchQueries : GetGroupedResults(query)
  \/ GetLastResults
  \/ \E query \in SearchQueries : SimpleSearchCall(query)

SpecSearch == InitSearch /\ [][NextSearch]_vars

\* getLinkPath applied to one pair of arguments
InitLink ==
  /\ WatcherInit /\ TreeViewerIdle /\ NoLookup /\ SearchNew
  /\ linkIn \in LinkInputs
  /\ linkOut = [called |-> FALSE, isNull |-> TRUE, path |-> <<>>]
  /\ cache = {}
  /\ NoCopier /\ NoRequests

NextLink == GetLinkPath

SpecLink == InitLink /\ [][NextLink]_vars

\* an ArcFileLinker answering getLink calls
InitCache ==
  /\ WatcherInit /\ TreeViewerIdle /\ NoLookup /\ SearchNew /\ NoLink
  /\ NoCopier /\ NoRequests

NextCache == \E t \in GetLinkTypes, n \in GetLinkNames : GetLink(t, n)

SpecCache == InitCache /\ [][NextCache]_vars

\* an ArcCopy with one factory-made button on a page
InitClipboard ==
  /\ WatcherInit /\ TreeViewerIdle /\ NoLookup /\ SearchNew /\ NoLink
  /\ NoRequests
  /\ secure \in BOOLEAN
  /\ toastDuration \in ToastDurations
  /\ toasts = <<>>
  /\ timers = <<>>
  /\ textareas = 0
  /\ writes = <<>>
  /\ \E icon \in {CopyIcon, LinkIcon} :
       button = [label |-> icon, disabled |-> FALSE, original |-> icon]
  /\ copyOp = CopyOp("none", FALSE, FALSE, "none", 0)

NextClipboard ==
  \/ \E from \in {"call", "button"}, exec \in ExecOutcomes : Copy(from, exec)
  \/ \E i \in 1..MaxToasts, ok \in BOOLEAN : WriteSettles(i, ok)
  \/ TimerFires
  \/ \E ms \in Waits : Wait(ms)

SpecClipboard == InitClipboard /\ [][NextClipboard]_vars

\* the ATM handler answering requests
InitAtm ==
  /\ WatcherInit /\ TreeViewerIdle /\ NoLookup /\ SearchNew /\ NoLink
  /\ NoCopier /\ NoRequests

NextAtm == \E req \in AtmRequests, now \in Times : AtmRequest(req, now)

SpecAtm == InitAtm /\ [][NextAtm]_vars

\* the docs handler answering requests, with all documents on disk or with
\* one of them missing
InitDocs ==
  /\ WatcherInit /\ TreeViewerIdle /\ NoLookup /\ SearchNew /\ NoLink
  /\ NoCopier
  /\ atmLog = <<>>
  /\ pageCache = {}
  /\ files \in {DocFiles} \cup {DocFiles \ {f} : f \in DocFiles}
  /\ docsOp = [kind |-> "none", lang |-> <<>>, proxy |-> <<>>,
               fault |-> "none", status |-> "", location |-> <<>>,
               hit |-> FALSE, cacheBefore |-> {}]

NextDocs ==
  \E lang \in Langs, proxy \in Proxies, fault \in Faults :
    DocsRequest(lang, proxy, fault)

SpecDocs == InitDocs /\ [][NextDocs]_vars

(***************************************************************************)
(* Properties                                                              *)
(***************************************************************************)
\* the last step called onArcChanged, i.e. ran handleArcChanged
HandlerInvoked == \E i \in 1..Len(trace) : trace[i].kind = "onArcChanged"
\* the data the last step handed to onArcChanged
Delivered ==
  { trace[i].arg.data :
      i \in { j \in 1..Len(trace) : trace[j].kind = "onArcChanged" } }
PollSettled == op.name \in {"pollOk", "pollFailed"}
\* the fields of the watcher and the work the event loop holds for it
watcherState == <<onArcChanged, lastData, isWatching, pollTimeout, listeners,
                  pollTimers, reconnectTimers, fetches, sockets, wsAttempts>>

PairwiseDifferent(a, b, c) ==
  /\ Stringify(a) # Stringify(b)
  /\ Stringify(a) # Stringify(c)
  /\ Stringify(b) # Stringify(c)

\* C1 (as stated): when the successful polls of a freshly started watcher
\* return A, A, B, B, C, the handler is invoked exactly twice, on the first B
\* and on C, and for no A.
C1_FiresTwice ==
  \A a, b, c \in Snapshots :
    (PairwiseDifferent(a, b, c) /\ polled = <<a, a, b, b, c>>)
      => fired = <<FALSE, FALSE, TRUE, FALSE, TRUE>>

\* C1 (amended): when the successful polls of a freshly started watcher
\* return A, A, B, B, C, the handler is invoked exactly three times: on the
\* first A (nothing was observed before it), on the first B and on C, and
\* never on a repeated snapshot.
C1_FiresOnFirstAndChanges ==
  \A a, b, c \in Snapshots :
    (PairwiseDifferent(a, b, c) /\ polled = <<a, a, b, b, c>>)
      => fired = <<TRUE, FALSE, TRUE, FALSE, TRUE>>

C1_Witness == polled = <<SnapA, SnapA, SnapB, SnapB, SnapC>>

\* C2: between stop() and the next start() the change handler is never
\* invoked, whatever timers, fetches or sockets were pending at stop().
C2_NoHandlerAfterStop == ~isWatching => ~HandlerInvoked

\* C3: at most one poll timer or poll fetch exists at any time.
C3_AtMostOnePoll == PendingPolls + InFlight <= 1

\* C4: right after stop() no poll timer is pending, and while the watcher
\* stays stopped no poll timer is scheduled.
C4_StopCancelsPolls ==
  [][ /\ (op'.name = "stop" => PendingPolls' = 0)
      /\ ((~isWatching /\ ~isWatching') => PendingPolls' <= PendingPolls) ]_vars

\* C5: every poll that settles while the watcher is watching, whatever its
\* outcome, schedules exactly one further poll timer, and that poll then
\* takes place unless stop() comes first.
C5_SettledPollReschedules ==
  /\ [][ (PollSettled' /\ isWatching) =>
          /\ PendingPolls' = PendingPolls + 1
          /\ InFlight' = InFlight - 1
          /\ pollTimeout' = "armed"
          /\ isWatching' ]_vars
  /\ ((PollSettled /\ isWatching) ~> (op.name = "pollTimer" \/ ~isWatching))

C5_Witness ==
  /\ op.name = "pollFailed"
  /\ op.kind = "parse"
  /\ isWatching
  /\ PendingPolls = 1
  /\ InFlight = 0

\* C6: a poll invokes the handler iff its fetch succeeded and the serialized
\* snapshot differs from the stored fingerprint; a failed poll leaves the
\* fingerprint alone; after an invocation the fingerprint is the serialized
\* form of the snapshot delivered.
C6_HandlerIffFingerprintDiffers ==
  [][ /\ (op'.name = "pollOk" =>
            /\ HandlerInvoked' <=> (lastData # Stringify(op'.data))
            /\ HandlerInvoked' => /\ Delivered' = {op'.data}
                                  /\ lastData' = Stringify(op'.data)
            /\ ~HandlerInvoked' => lastData' = lastData)
      /\ (op'.name = "pollFailed" => (~HandlerInvoked' /\ lastData' = lastData))
    ]_vars

C6_Witness ==
  /\ op.name = "pollOk"
  /\ ~HandlerInvoked
  /\ lastData = Stringify(op.data)

\* C7: start() while watching changes nothing; start() while not watching
\* sets isWatching and makes one socket connection attempt, and arms a poll
\* only when that attempt could not even be constructed.
C7_StartIdempotent ==
  [][ op'.name = "start" =>
        IF isWatching
        THEN UNCHANGED watcherState
        ELSE /\ isWatching'
             /\ wsAttempts' = wsAttempts + 1
             /\ UNCHANGED <<fetches, reconnectTimers, lastData, listeners>>
             /\ \/ /\ sockets' = [sockets EXCEPT !.connecting = @ + 1]
                   /\ PendingPolls' = PendingPolls
                \/ /\ sockets' = sockets
                   /\ PendingPolls' = PendingPolls + 1 ]_vars

C7_Witness ==
  /\ op.name = "start"
  /\ op.kind = "watching"
  /\ wsAttempts = 1
  /\ sockets.connecting = 1

\* C8: a socket message invokes the handler exactly when its type is
\* "arc-changed", with that message's arcData; any other message calls no
\* listener and no handler and leaves the watcher as it was.
C8_OnlyArcChangedMessages ==
  [][ op'.name = "message" =>
        /\ UNCHANGED watcherState
        /\ IF op'.kind = "arc-changed"
           THEN HandlerInvoked' /\ Delivered' = {op'.data}
           ELSE trace' = <<>> ]_vars

C8_Witness ==
  /\ op.name = "message"
  /\ op.kind = "other"
  /\ listeners["arc-changed"] # <<>>
  /\ trace = <<>>

\* C9: handleArcChanged calls every listener registered for "arc-changed" in
\* registration order and then onArcChanged, each with the new data; a
\* throwing listener or callback stops none of the others and nothing
\* escapes.
C9_ListenersThenCallback ==
  (op.name \in {"pollOk", "message"} /\ trace # <<>>) =>
    LET ls == listeners["arc-changed"]
        n  == Len(ls)
    IN  /\ Len(trace) = n + 1
        /\ \A i \in 1..n : /\ trace[i].kind = "listener"
                           /\ trace[i].cb = ls[i]
                           /\ trace[i].arg = [wrapped |-> TRUE, data |-> op.data]
        /\ trace[n + 1].kind = "onArcChanged"
        /\ trace[n + 1].cb = onArcChanged
        /\ trace[n + 1].arg = [wrapped |-> FALSE, data |-> op.data]
        /\ ~escaped

C9_Witness ==
  /\ op.name = "pollOk"
  /\ listeners["arc-changed"] = <<"bad", "ok">>
  /\ Len(trace) = 3
  /\ trace[1].threw
  /\ onArcChanged = "bad"

\* the id a child at 0-based index idx of a list must have (idx < 10)
ExpectedId(prefix, idx) ==
  prefix \o <<"-">> \o
  << <<"0", "1", "2", "3", "4", "5", "6", "7", "8", "9">>[idx + 1] >>

GroupOf(cat) ==
  [routes |-> "routes-group", lambdas |-> "lambdas-group",
   tables |-> "tables-group"][cat]
TypeOf(cat) ==
  [routes |-> "route", lambdas |-> "lambda", tables |-> "table"][cat]
PrefixOf(cat) ==
  [routes |-> <<"r", "o", "u", "t", "e">>,
   lambdas |-> <<"l", "a", "m", "b", "d", "a">>,
   tables |-> <<"t", "a", "b", "l", "e">>][cat]
LabelOf(cat, entry) ==
  IF cat = "routes" THEN entry.method \o <<" ">> \o entry.path ELSE entry.name

\* C10: the rendered tree has a group for a category iff its toggle is on
\* and its list is non-empty (an empty or missing list gives no group), at
\* most 3 groups, and each group has one child per list entry, in list
\* order, with id {type}-{index}.
C10_GroupsIffToggledAndNonEmpty ==
  rendered =>
    /\ Len(tree) <= 3
    /\ \A cat \in Categories :
         LET at == { i \in 1..Len(tree) : tree[i].id = GroupOf(cat) }
             items == arcData[cat].items
         IN  /\ Cardinality(at) <= 1
             /\ (at # {}) <=> /\ toggleStates[cat]
                              /\ arcData[cat].has
                              /\ Len(items) > 0
             /\ \A i \in at :
                  /\ Len(tree[i].children) = Len(items)
                  /\ \A k \in 1..Len(items) :
                       /\ tree[i].children[k].id = ExpectedId(PrefixOf(cat), k - 1)
                       /\ tree[i].children[k].type = TypeOf(cat)
                       /\ tree[i].children[k].name = LabelOf(cat, items[k])
    /\ \A i \in 1..Len(tree) : \E cat \in Categories : tree[i].id = GroupOf(cat)

C10_Witness ==
  /\ rendered
  /\ ~arcData.lambdas.has
  /\ arcData.tables.has
  /\ arcData.tables.items = <<>>
  /\ Len(arcData.routes.items) = 2
  /\ arcData.routes.items[1] # arcData.routes.items[2]
  /\ toggleStates.routes
  /\ Len(tree) = 1
  /\ Len(tree[1].children) = 2

\* the characters of str are all decimal digits
AllDigits(str) == \A i \in 1..Len(str) : str[i] \in {"0", "1", "2", "3", "4", "5", "6", "7", "8", "9"}
\* the number a string of decimal digits denotes
RECURSIVE DecimalValue(_)
DecimalValue(str) ==
  IF str = <<>> THEN 0
  ELSE 10 * DecimalValue(SubSeq(str, 1, Len(str) - 1))
       + (CHOOSE d \in 0..9 : DecDigits[d + 1] = str[Len(str)])

\* id is {type}-{nonnegative integer} with the integer an index of the
\* list of that type in the current Manifest Model
Resolvable(id) ==
  \E cat \in Categories :
    LET prefix == PrefixOf(cat) \o <<"-">>
        suffix == SubSeq(id, Len(prefix) + 1, Len(id))
    IN  /\ Len(id) > Len(prefix)
        /\ SubSeq(id, 1, Len(prefix)) = prefix
        /\ AllDigits(suffix)
        /\ arcData[cat].has
        /\ DecimalValue(suffix) < Len(arcData[cat].items)

\* C11: for every child id of the tree built from the Manifest Model,
\* getNode(id) on the same model returns the child's type and the entry of
\* the corresponding list at the index the id encodes.
C11_GetNodeRoundTrip ==
  (rendered /\ lookup.called) =>
    \A cat \in Categories :
      \A i \in { j \in 1..Len(tree) : tree[j].id = GroupOf(cat) } :
        \A k \in 1..Len(tree[i].children) :
          lookup.id = tree[i].children[k].id =>
            /\ ~lookup.result.isNull
            /\ lookup.result.type = TypeOf(cat)
            /\ lookup.result.type = tree[i].children[k].type
            /\ lookup.result.data = arcData[cat].items[k]

C11_Witness ==
  /\ rendered
  /\ lookup.called
  /\ arcData = LongManifest
  /\ lookup.id = <<"l", "a", "m", "b", "d", "a", "-", "1", "0">>
  /\ lookup.id \in ChildIds(tree)
  /\ lookup.result.data = [name |-> <<"n", "1">>]

\* C12: getNode(id) returns null for every id that is not
\* {type}-{nonnegative integer} with type route, lambda or table, and for
\* every id whose index is outside the list (or whose list is missing).
C12_NullForUnresolvableIds ==
  (lookup.called /\ ~Resolvable(lookup.id)) => lookup.result.isNull

\* the data-node-id of the element a click event names
ClickedId ==
  IF domOp.idx = 0 THEN PrefixOf(domOp.cat) \o <<"s", "-", "g", "r", "o", "u", "p">>
  ELSE ExpectedId(PrefixOf(domOp.cat), domOp.idx - 1)

\* a click on the expand affordance of cat's group changes the collapsed
\* class of that group's children container and of no other
ExpandFlipsOwn ==
  \A cat \in Categories :
    Click([cat |-> cat, idx |-> 0], "tree-toggle") =>
      /\ (cat \in collapsed') # (cat \in collapsed)
      /\ \A other \in Categories \ {cat} :
           (other \in collapsed') = (other \in collapsed)

\* C13: after any init calls and toggle re-renders, a click on a node's
\* content outside its copy control calls onNodeClick exactly once with that
\* node's id and the current Manifest Model; a click on an expand affordance
\* or a copy control calls it zero times; the expand click flips the
\* collapsed class of that node's own children container only.
C13_ClickDispatch ==
  /\ [](domOp.kind = "click" =>
          /\ domOp.target \in {"tree-node-content", "tree-icon", "tree-label",
                               "tree-toggle-empty"} =>
               domOp.calls = <<[nodeId |-> ClickedId, manifest |-> arcData]>>
          /\ domOp.target \in {"tree-toggle", "copy-btn"} =>
               domOp.calls = <<>>)
  /\ [][ExpandFlipsOwn]_vars

C13_Witness ==
  /\ ~toggleStates.lambdas
  /\ arcData = RoutesManifest
  /\ domOp.kind = "click"
  /\ domOp.target = "tree-label"
  /\ domOp.idx = 2
  /\ Len(domOp.calls) = 1
  /\ "routes" \in collapsed

\* C14: a click on a copy control with label L copies the control's value;
\* when the write succeeds the label is "Copied!" and, once the 2 s timer
\* has fired, L again; when the write fails the label is "Failed" and, once
\* the timer has fired, L again; no error escapes the handler or its timer.
\* Stated for a click that no other copy of the same button overlaps.
C14_CopyLabelRestored ==
  /\ ~domOp.threw
  /\ (domOp.kind = "settled" /\ domOp.alone) =>
       /\ labels[domOp.idx] = IF domOp.ok THEN CopiedText ELSE FailedText
       /\ domOp.ok =>
            clipboard = LabelOf("routes", arcData.routes.items[domOp.idx])
  /\ (domOp.kind = "timer" /\ domOp.alone) =>
       labels[domOp.idx] = domOp.label

\* no label of the rendered tree contains q, letter case aside
MatchesNoLabel(q) ==
  \A ref \in TreeNodes(tree) :
    ~Includes(ToLowerCase(LabelText(tree, ref)), ToLowerCase(q))

\* C15: after filterTree(q) with q non-empty and matching no label, whatever
\* calls came before, the tree has exactly one "no matches" element and its
\* text contains q; after filterTree("") or a query with a match it has none.
C15_OneNoMatchWithQuery ==
  domOp.kind = "filter" =>
    IF domOp.query # <<>> /\ MatchesNoLabel(domOp.query)
    THEN Len(noMatch) = 1 /\ Includes(noMatch[1], domOp.query)
    ELSE noMatch = <<>>

\* C16: after any filterTree calls, filterTree("") leaves no tree node
\* hidden.
C16_EmptyQueryShowsAll ==
  (domOp.kind = "filter" /\ domOp.query = <<>>) => hidden = {}

C16_Witness ==
  /\ domOp.kind = "filter"
  /\ domOp.query = <<>>
  /\ domOp.before > 0
  /\ TreeNodes(tree) # {}
  /\ hidden = {}

\* two characters that are the same letter in either case, or equal
SameLetter(a, b) ==
  \/ a = b
  \/ \E k \in 1..26 : {a, b} = {UpperCase[k], LowerCase[k]}

\* text contains q at some position, letter case aside
ContainsIgnoringCase(text, q) ==
  \E at \in 0..(Len(text) - Len(q)) :
    \A k \in 1..Len(q) : SameLetter(text[at + k], q[k])

\* q is empty or consists of spaces only
OnlySpaces(q) == \A i \in 1..Len(q) : q[i] = " "

\* type and searchText of the manifest entries containing q: routes, then
\* lambdas, then tables, each in manifest order
ExpectedHits(data, q) ==
  LET RouteText(r) == r.method \o <<" ">> \o r.path \o <<" ">> \o r.functionName
      RouteHit(r) == ContainsIgnoringCase(RouteText(r), q)
      NameHit(e) == ContainsIgnoringCase(e.name, q)
      routes == SelectSeq(data.routes.items, RouteHit)
      lambdas == SelectSeq(data.lambdas.items, NameHit)
      tables == SelectSeq(data.tables.items, NameHit)
  IN  [i \in 1..Len(routes) |->
         [type |-> "route", searchText |-> RouteText(routes[i])]]
      \o [i \in 1..Len(lambdas) |->
            [type |-> "lambda", searchText |-> lambdas[i].name]]
      \o [i \in 1..Len(tables) |->
            [type |-> "table", searchText |-> tables[i].name]]

TypeAndText(results) ==
  [i \in 1..Len(results) |->
     [type |-> results[i].type, searchText |-> results[i].searchText]]

\* C17: without the fuzzy engine, search(q) returns the empty sequence for
\* an empty or whitespace-only q, and otherwise exactly the items whose
\* searchText contains q case-insensitively, routes first, then lambdas,
\* then tables, each in manifest order.
C17_FallbackSearch ==
  (searchOp.kind = "search" /\ fuse.isNull /\ ~searchItems.isNull) =>
    /\ ~searchOp.threw
    /\ IF OnlySpaces(searchOp.query) THEN searchOp.result = <<>>
       ELSE TypeAndText(searchOp.result) = ExpectedHits(indexed, searchOp.query)

C17_Witness ==
  /\ searchOp.kind = "search"
  /\ fuse.isNull
  /\ searchOp.query = <<"a", "p", "i">>
  /\ Len(searchItems.list) = 3
  /\ Len(searchOp.result) = 2
  /\ searchOp.result[2].functionName = <<"A", "p", "i", "N">>

\* the positions of results that hold an item of one type
PositionsOf(results, type) ==
  { j \in 1..Len(results) : results[j].type = type }

\* C18: getGroupedResults(q) partitions search(q) by type: every item of
\* search(q) is in exactly one of routes, lambdas, tables, the one of its
\* type; nothing else is in them; each keeps the relative order of search(q).
C18_GroupedPartitionsSearch ==
  (searchOp.kind = "getGroupedResults" /\ ~searchOp.threw) =>
    \A cat \in Categories :
      LET at == PositionsOf(searchOp.result, TypeOf(cat))
          group == searchOp.grouped[cat]
      IN  /\ Len(group) = Cardinality(at)
          /\ \A j \in at :
               group[Cardinality({ k \in at : k <= j })] = searchOp.result[j]

C18_Witness ==
  /\ searchOp.kind = "getGroupedResults"
  /\ Len(searchOp.result) = 3
  /\ searchOp.result[1].type = "route"
  /\ searchOp.result[2].type = "lambda"
  /\ searchOp.result[3].type = "route"
  /\ Len(searchOp.grouped.routes) = 2

\* C19: getLastResults() equals the sequence that the most recent search or
\* getGroupedResults call returned, and is empty when that call's query was
\* empty or whitespace-only or when no query has been made.
C19_LastResultsAreLastReturned ==
  searchOp.kind = "getLastResults" =>
    /\ searchOp.result = returned.list
    /\ (~returned.made \/ OnlySpaces(returned.query)) => searchOp.result = <<>>

C19_Witness ==
  /\ searchOp.kind = "getLastResults"
  /\ returned.made
  /\ Len(searchOp.result) = 2
  /\ searchOp.result = lastResults.list

\* the lower-case form of one character
LowerOf(c) ==
  IF \E k \in 1..26 : UpperCase[k] = c
  THEN LowerCase[CHOOSE k \in 1..26 : UpperCase[k] = c]
  ELSE c

\* the non-empty segments of a path, lower-cased, with one '-' between
\* neighbours; dash says that a segment has ended and none has begun since
RECURSIVE DashedFrom(_, _, _)
DashedFrom(path, begun, dash) ==
  IF path = <<>> THEN <<>>
  ELSE IF Head(path) = "/" THEN DashedFrom(Tail(path), begun, begun)
       ELSE (IF dash THEN <<"-">> ELSE <<>>) \o <<LowerOf(Head(path))>>
            \o DashedFrom(Tail(path), TRUE, FALSE)

Dashed(path) == DashedFrom(path, FALSE, FALSE)

LowerMethod ==
  IF linkIn.form = "bare" THEN <<"g", "e", "t">>
  ELSE [i \in 1..Len(linkIn.method) |-> LowerOf(linkIn.method[i])]

GetApiUsersPath ==
  <<"s", "r", "c", "/", "h", "t", "t", "p", "/", "g", "e", "t", "-",
    "a", "p", "i", "-", "u", "s", "e", "r", "s",
    "/", "i", "n", "d", "e", "x", ".", "m", "j", "s">>

C21_GetLinkIsGetLinkPath ==
  /\ [](linkIn.form = "getLink" =>
          linkOut = GetLinkPathResult(linkIn.type, linkIn.name))
  /\ [][\A e \in cache : \E f \in cache' : f.key = e.key]_vars

\* a copy has settled after the clipboard or execCommand did this
Settled(outcomes) ==
  /\ copyOp.kind \in {"call", "button"}
  /\ copyOp.settled
  /\ copyOp.outcome \in outcomes

\* C22: copy(text) always settles with a boolean and never rejects: true
\* after the clipboard write or execCommand succeeded, false after any
\* failure, and on every failure an error toast has been shown.
C22_CopySettlesWithBoolean ==
  (copyOp.kind \in {"call", "button"} /\ copyOp.settled) =>
    /\ ~copyOp.threw
    /\ copyOp.result = (copyOp.outcome \in {"written", "true"})
    /\ ~copyOp.result =>
         /\ Len(toasts) = copyOp.toastsBefore + 1
         /\ toasts[Len(toasts)].type = "error"

C22_Witness ==
  /\ Settled({"false"})
  /\ ~copyOp.result
  /\ toasts[Len(toasts)].type = "error"

ClicksUnderWay ==
  Cardinality({i \in 1..Len(writes) : writes[i].from = "button"})
    + Cardinality({i \in 1..Len(timers) : timers[i].kind = "restore"})

\* C24: a click on a factory-made button disables it and shows the check
\* mark; the restore timer, armed for toastDuration when the copy settled,
\* enables it again with the label it had before the click, whether the copy
\* succeeded or not; so when no click is under way the button is enabled and
\* has its original label.
C24_ButtonRestored ==
  /\ [](/\ button.disabled => (button.label = "check" /\ ClicksUnderWay = 1)
        /\ ~button.disabled => (button.label = button.original
                                  /\ ClicksUnderWay = 0)
        /\ \A i \in 1..Len(timers) :
             timers[i].kind = "restore" => timers[i].label = button.original)
  /\ [][/\ (Settled({"written", "rejected", "true", "false", "throws"})'
              /\ copyOp'.kind = "button" /\ copyOp' # copyOp)
             => /\ timers'[Len(timers')].kind = "restore"
                /\ timers'[Len(timers')].remaining = toastDuration
        /\ (button.disabled /\ ~button'.disabled)
             => /\ copyOp'.kind = "restore"
                /\ button'.label = button.original]_vars

C24_Witness ==
  /\ copyOp.kind = "restore"
  /\ ~copyOp.result
  /\ ~button.disabled
  /\ button.label = LinkIcon
  /\ Len(toasts) = 2

\* the life of a toast
ToastLife == <<"appended", "shown", "hidden", "removed">>

\* C25: every toast is appended to its container, becomes visible shortly
\* after, stops being visible toastDuration after it was made and is removed
\* 300 ms later, in this order; once every timer has run no toast is left in
\* any container.
C25_ToastLifecycle ==
  /\ \A i \in 1..Len(toasts) :
       /\ Len(toasts[i].events) <= Len(ToastLife)
       /\ toasts[i].events = SubSeq(ToastLife, 1, Len(toasts[i].events))
       /\ toasts[i].shown = (Len(toasts[i].events) = 2)
       /\ toasts[i].attached = (Len(toasts[i].events) < 4)
  /\ (timers = <<>> /\ writes = <<>>) =>
       \A i \in 1..Len(toasts) : ~toasts[i].attached

\* the number a request's amount parameter stands for
Reading(req) == CHOOSE a \in AtmAmounts : a.text = req.text
Numeric(req) == req.params /\ req.given /\ Reading(req).kind # "none"

\* the response without the time it was made at
Outcome(res) ==
  [statusCode |-> res.statusCode, success |-> res.success,
   error |-> res.error, amount |-> res.transaction.amount,
   previousBalance |-> res.transaction.previousBalance,
   newBalance |-> res.transaction.newBalance]

Landings ==
  { [proxy |-> <<"g", "e", "t", "-", "s", "t", "a", "r", "t", "e", "d">>,
     first |-> <<"/", "g", "e", "t", "-", "s", "t", "a", "r", "t", "e", "d",
         "/", "w", "h", "y", "-", "a", "r", "c", "h", "i", "t", "e", "c",
         "t">>],
    [proxy |-> <<"g", "u", "i", "d", "e", "s">>,
     first |-> <<"/", "g", "u", "i", "d", "e", "s", "/", "d", "e", "v", "-",
         "t", "o", "o", "l", "s", "/", "l", "o", "c", "a", "l", "-", "d",
         "e", "v">>],
    [proxy |-> <<"g", "u", "i", "d", "e", "s", "/", "d", "e", "v", "-", "t",
        "o", "o", "l", "s">>,
     first |-> <<"/", "g", "u", "i", "d", "e", "s", "/", "d", "e", "v", "-",
         "t", "o", "o", "l", "s", "/", "l", "o", "c", "a", "l", "-", "d",
         "e", "v">>] }

NamesCategory(proxy) == \E l \in Landings : l.proxy = proxy
Landing(lang, proxy) ==
  <<"/", "d", "o", "c", "s", "/">> \o lang
    \o (CHOOSE l \in Landings : l.proxy = proxy).first

C28_RenderedTreeIsCurrent ==
  /\ rendered => tree = BuildTree(arcData, toggleStates)
  /\ domOp.kind = "render" =>
       /\ rendered
       /\ collapsed = {} /\ hidden = {} /\ noMatch = <<>>
       /\ Len(labels) = CopyButtons(BuildTree(arcData, toggleStates))
       /\ \A k \in 1..Len(labels) : labels[k] = CopyIcon

C28_Witness ==
  /\ domOp.kind = "render"
  /\ ~toggleStates["routes"]
  /\ toggleStates["lambdas"]
  /\ arcData.routes.has /\ arcData.routes.items # <<>>
  /\ Len(tree) = 1

\* C29: the watcher goes stopped -> connecting -> connected and falls back
\* to polling; it is never polling while a socket is connecting or connected,
\* and once it polls it opens no further socket until it is stopped.
C29_PollingExcludesSocket ==
  /\ []((PendingPolls + InFlight > 0)
          => (sockets.connecting + sockets.open = 0))
  /\ [][(isWatching /\ isWatching' /\ PendingPolls + InFlight > 0)
          => sockets'.connecting <= sockets.connecting]_vars

\* C30: a reconnection is attempted only while the watcher is watching: when
\* stop() is called between a socket's close and the end of the 5000 ms
\* delay, no new socket is opened.
C30_ReconnectOnlyWhileWatching ==
  [][(sockets'.connecting > sockets.connecting) => isWatching']_vars

\* the categories of the rendered tree with a leaf whose label contains q,
\* letter case aside
HoldsMatch(q) ==
  { c \in ShownCategories(tree) :
      \E k \in 1..Len(GroupNode(tree, c).children) :
        ContainsIgnoringCase(GroupNode(tree, c).children[k].name, q) }

\* C31: filterTree never collapses anything: after a non-empty query every
\* children container above a matching node is expanded, whatever was
\* collapsed before; a container holding no match keeps its state; and
\* filterTree("") changes no collapsed state.
C31_FilterOnlyExpands ==
  domOp.kind = "filter" =>
    collapsed = IF domOp.query = <<>> THEN domOp.was
                ELSE domOp.was \ HoldsMatch(domOp.query)

C31_Witness ==
  /\ domOp.kind = "filter"
  /\ domOp.query = <<"n", "1">>
  /\ domOp.was = {"routes", "lambdas"}
  /\ collapsed = {"routes"}

\* C32: after filterTree(q) with q non-empty, every leaf whose label contains
\* q, letter case aside, is visible: neither the leaf nor its category group
\* is hidden, even when the group's own label does not contain q.
C32_MatchingLeavesVisible ==
  (domOp.kind = "filter" /\ domOp.query # <<>>) =>
    \A ref \in TreeNodes(tree) :
      (ref.idx > 0 /\ ContainsIgnoringCase(LabelText(tree, ref), domOp.query))
        => /\ ref \notin hidden
           /\ [cat |-> ref.cat, idx |-> 0] \notin hidden

\* C33: after every render each category checkbox is checked exactly when the
\* category's toggle state is on (so that a click on the checkbox of a
\* category that is off switches it on again).
C33_CheckboxesShowToggleState ==
  rendered => \A cat \in Categories : checkboxes[cat] = toggleStates[cat]

\* the copy handlers and label timers of button k that have not finished
PendingOn(k) ==
  { i \in 1..Len(copies) : copies[i].attached /\ copies[i].btn = k }

\* C34: whatever the sequence of clicks on a copy control, a second click
\* before the 2 s timer of an earlier click included, the control shows its
\* original label once every pending handler and timer of it has run, and
\* keeps it.
C34_LabelReturnsAfterAllTimers ==
  \A k \in 1..Len(labels) : PendingOn(k) = {} => labels[k] = CopyIcon

\* C35: init(newManifest) called again renders the manifest the viewer then
\* holds and leaves the toggle state as it was: no category that was
\* switched off is in the tree.
C35_InitKeepsToggleState ==
  [][(domOp'.kind = "render" /\ domOp'.target = "init(arcData)") =>
       /\ toggleStates' = toggleStates
       /\ tree' = BuildTree(arcData', toggleStates)
       /\ \A cat \in Categories :
            ~toggleStates[cat] => cat \notin ShownCategories(tree')]_vars

C35_Witness ==
  /\ domOp.kind = "render" /\ domOp.target = "init(arcData)"
  /\ ~toggleStates["lambdas"]
  /\ arcData.lambdas.has /\ arcData.lambdas.items # <<>>
  /\ ShownCategories(tree) = {"tables"}

\* C36: whatever search, getGroupedResults and getLastResults return consists
\* only of items of the manifest given to the latest init, whether that init
\* found the fuzzy engine, found none, or saw its constructor throw.
C36_ResultsFromLatestManifest ==
  (searchOp.kind \in {"search", "getGroupedResults", "getLastResults"}
     /\ ~searchOp.threw)
    => Range(searchOp.result) \subseteq Range(FlattenItems(indexed))

\* C37: every copy(text) shows exactly one toast, none before it settles:
\* a success toast when it returns true and an error toast when it returns
\* false, on the Clipboard API path and on the execCommand path alike.
C37_OneToastPerCopy ==
  copyOp.kind \in {"call", "button"} =>
    IF copyOp.settled
    THEN /\ Len(toasts) = copyOp.toastsBefore + 1
         /\ toasts[Len(toasts)].type =
              IF copyOp.result THEN "success" ELSE "error"
    ELSE Len(toasts) = copyOp.toastsBefore

C37_Witness ==
  /\ Settled({"written"})
  /\ copyOp.result
  /\ Len(toasts) = 2
  /\ toasts[1].type = "error"
  /\ toasts[2].type = "success"

\* the items init makes of the entries that simpleSearch returns
AsItems(found) ==
  [routes |-> [i \in 1..Len(found.routes) |-> RouteItem(found.routes[i])],
   lambdas |-> [i \in 1..Len(found.lambdas) |-> LambdaItem(found.lambdas[i])],
   tables |-> [i \in 1..Len(found.tables) |-> TableItem(found.tables[i])]]

\* what getGroupedResults(q) answers in the present state of a searcher
\* without a fuzzy index
GroupedNow(q) ==
  LET result == SearchCall(q, <<>>).result
  IN  [type \in {"route", "lambda", "table"} |->
         SelectSeq(result, LAMBDA item : item.type = type)]

\* C38: a searcher in fallback mode and simpleSearch agree: after init(M),
\* getGroupedResults(q) holds in each group the items of the entries that
\* simpleSearch(M, q) selects, in the same order, and both are empty for an
\* empty or whitespace-only q.
C38_SimpleSearchAgreesWithFallback ==
  /\ (searchOp.kind = "getGroupedResults" /\ fuse.isNull /\ ~searchOp.threw)
       => /\ searchOp.grouped = AsItems(SimpleSearch(indexed, searchOp.query))
          /\ Blank(searchOp.query) =>
               searchOp.grouped
                 = [routes |-> <<>>, lambdas |-> <<>>, tables |-> <<>>]
  /\ (searchOp.kind = "simpleSearch" /\ fuse.isNull /\ ~searchItems.isNull)
       => /\ AsItems(searchOp.grouped).routes
               = GroupedNow(searchOp.query)["route"]
          /\ AsItems(searchOp.grouped).lambdas
               = GroupedNow(searchOp.query)["lambda"]
          /\ AsItems(searchOp.grouped).tables
               = GroupedNow(searchOp.query)["table"]

C38_Witness ==
  /\ searchOp.kind = "getGroupedResults"
  /\ fuse.isNull
  /\ searchOp.query = <<"a", "p", "i">>
  /\ Len(searchOp.grouped.routes) = 2
  /\ searchOp.grouped.lambdas = <<>>
  /\ indexed.lambdas.items # <<>>

====
